---- MODULE Spec2Model ----
(***************************************************************************)
(* The credential-injecting reverse proxy of                               *)
(* home/development/Claude/containers/proxies/claude-auth-proxy.py:        *)
(* one invocation of ClaudeAuthProxyHandler.handle_request, from the       *)
(* dispatch of an inbound request to the last byte written to the client   *)
(* (Spec), and the server of main() that runs the handlers (ServerSpec).   *)
(*                                                                         *)
(* Text that the code searches and rewrites (header values, tokens) is a   *)
(* sequence of one-character strings; text it only passes along (paths,    *)
(* upstream bodies, response header values) is an atomic string.           *)
(***************************************************************************)
EXTENDS Integers, Sequences, FiniteSets, TLC

(***************************************************************************)
(* Bounds of the model.                                                    *)
(***************************************************************************)
\* longest inbound header value of the value family of requests
MaxValLen == 4
\* most headers of an inbound request of the name family of requests
MaxHeaders == 2
\* longest access token made of the token character alone
MaxTokLen == 2
\* most client connections the listener is given in one run of the server
MaxClients == 2

(***************************************************************************)
(* Python str and dict, as the handler uses them.                          *)
(***************************************************************************)
\* all sequences over S of length 0..n
RECURSIVE Strings(_, _)
Strings(S, n) ==
  IF n = 0 THEN {<<>>}
  ELSE LET shorter == Strings(S, n - 1)
       IN  shorter \cup {Append(s, c) : s \in {x \in shorter : Len(x) = n - 1}, c \in S}

\* Python `pat in value` on str
StrContains(value, pat) ==
  \E i \in 0..(Len(value) - Len(pat)) : SubSeq(value, i + 1, i + Len(pat)) = pat

\* (mutant) a replace that stops after the first occurrence
RECURSIVE StrReplace_first(_, _, _)
StrReplace_first(value, old, new) ==
  IF Len(old) = 0 THEN new \o value
  ELSE IF Len(value) < Len(old) THEN value
  ELSE IF SubSeq(value, 1, Len(old)) = old
       THEN new \o SubSeq(value, Len(old) + 1, Len(value))
       ELSE <<Head(value)>> \o StrReplace_first(Tail(value), old, new)

\* Python value.replace(old, new): one left-to-right pass over the
\* non-overlapping occurrences of old; the text put in is not scanned again
RECURSIVE StrReplace(_, _, _)
StrReplace(value, old, new) ==
  IF Len(old) = 0
  THEN IF Len(value) = 0 THEN new
       ELSE new \o <<Head(value)>> \o StrReplace(Tail(value), old, new)
  ELSE IF Len(value) < Len(old) THEN value
  ELSE IF SubSeq(value, 1, Len(old)) = old
       THEN new \o StrReplace(SubSeq(value, Len(old) + 1, Len(value)), old, new)
       ELSE <<Head(value)>> \o StrReplace(Tail(value), old, new)

\* Python key.lower() on the header names of the model
Lower(name) ==
  CASE name \in {"Authorization", "authorization"}                       -> "authorization"
    [] name \in {"X-Api-Key", "X-api-key", "x-api-key"}                   -> "x-api-key"
    [] name \in {"Content-Length", "Content-length", "content-length"}    -> "content-length"
    [] name \in {"Connection", "CONNECTION", "connection"}                -> "connection"
    [] name \in {"Host", "host"}                                          -> "host"
    [] name \in {"Transfer-Encoding", "transfer-encoding"}                -> "transfer-encoding"
    [] name \in {"Content-Type", "Content-type", "content-type"}          -> "content-type"
    [] name \in {"Set-Cookie", "set-cookie"}                              -> "set-cookie"
    [] OTHER                                                              -> name

\* Python key.capitalize() on the header names of the model: the first
\* character in upper case, every other in lower case
Capitalize(name) ==
  CASE Lower(name) = "authorization"     -> "Authorization"
    [] Lower(name) = "x-api-key"         -> "X-api-key"
    [] Lower(name) = "content-length"    -> "Content-length"
    [] Lower(name) = "connection"        -> "Connection"
    [] Lower(name) = "host"              -> "Host"
    [] Lower(name) = "content-type"      -> "Content-type"
    [] OTHER                             -> name

\* A message (email.message.Message) is a sequence of <<name, value>> in wire
\* order; msg.get(name, default) is the first value whose name matches
\* without regard to case
MsgHas(msg, name) == \E i \in 1..Len(msg) : Lower(msg[i][1]) = Lower(name)

MsgGet(msg, name, default) ==
  IF MsgHas(msg, name)
  THEN msg[CHOOSE i \in 1..Len(msg) :
             /\ Lower(msg[i][1]) = Lower(name)
             /\ \A j \in 1..(i - 1) : Lower(msg[j][1]) # Lower(name)][2]
  ELSE default

\* A dict is a sequence of <<key, value>> with distinct keys, in insertion
\* order
DictHas(d, k) == \E i \in 1..Len(d) : d[i][1] = k

DictSet(d, k, v) ==
  IF DictHas(d, k)
  THEN [i \in 1..Len(d) |-> IF d[i][1] = k THEN <<k, v>> ELSE d[i]]
  ELSE Append(d, <<k, v>>)

DictGet(d, k) == d[CHOOSE i \in 1..Len(d) : d[i][1] = k][2]

DictPop(d, k) == SelectSeq(d, LAMBDA kv : kv[1] # k)

\* dict(msg): msg.keys() gives every name as written, msg[name] the first
\* value of that name without regard to case
RECURSIVE DictOfPrefix(_, _)
DictOfPrefix(msg, n) ==
  IF n = 0 THEN <<>>
  ELSE DictSet(DictOfPrefix(msg, n - 1), msg[n][1], MsgGet(msg, msg[n][1], <<>>))

DictOfMessage(msg) == DictOfPrefix(msg, Len(msg))

(***************************************************************************)
(* Program constants.                                                      *)
(***************************************************************************)
ANTHROPIC_API_BASE == "https://api.anthropic.com"

\* The one placeholder of the list: a string that does not overlap itself
\* (no proper prefix of "sk-ant-oat01-dummy...DummyAA" is also a suffix of
\* it), kept here as the shortest string with that shape
DUMMY == <<"d", "q">>

DUMMY_TOKENS == <<DUMMY>>

\* The value the handler writes over Host
UPSTREAM_HOST == <<"H">>

(***************************************************************************)
(* The credential source adapter.                                          *)
(***************************************************************************)
\* An adapter result: None, a str, or whatever else json.loads made of the
\* accessToken member; Number stands for the values that are true and are
\* no str (a number other than 0, a non-empty list or object, true)
None == [none |-> TRUE, isstr |-> FALSE, str |-> <<>>]

Str(s) == [none |-> FALSE, isstr |-> TRUE, str |-> s]

Number == [none |-> FALSE, isstr |-> FALSE, str |-> <<>>]

\* (mutant) a check that takes every adapter result for a token
Truthy_any(tok) == TRUE

\* Python truth of an adapter result: `not real_token` holds of None and ""
Truthy(tok) == ~tok.none /\ (tok.isstr => tok.str # <<>>)

\* The values accessToken can have: the empty string and the runs of the
\* token character "t" up to MaxTokLen, which share nothing with the
\* placeholder; and two that overlap it: its last character, and the
\* placeholder itself (a credential store that holds the dummy credentials)
TokChars == {"t"}

TokenStrings == Strings(TokChars, MaxTokLen) \cup {<<"q">>, DUMMY}

\* One run of get-claude-credentials.sh: it raises (timeout, not found), or
\* exits with a return code and a stdout that is empty, not JSON, or a JSON
\* record with or without claudeAiOauth and accessToken, the accessToken a
\* string ("record") or not ("recordNumber")
CredentialRuns ==
  {[raises |-> TRUE, returncode |-> 0, stdout |-> "empty", accessToken |-> <<>>]}
  \cup {[raises |-> FALSE, returncode |-> rc, stdout |-> out, accessToken |-> <<>>] :
          rc \in {0, 1},
          out \in {"empty", "malformed", "noOauth", "noAccessToken", "recordNumber"}}
  \cup {[raises |-> FALSE, returncode |-> rc, stdout |-> "record", accessToken |-> t] :
          rc \in {0, 1}, t \in TokenStrings}

\* (mutant) an adapter that reads stdout whatever the return code
get_real_oauth_token_anyexit(run) ==
  IF run.raises THEN None
  ELSE IF run.stdout = "record" THEN Str(run.accessToken)
  ELSE IF run.stdout = "recordNumber" THEN Number
  ELSE None

get_real_oauth_token(run) ==
  IF run.raises THEN None
  ELSE IF run.returncode = 0 /\ run.stdout # "empty"
       THEN IF run.stdout = "record" THEN Str(run.accessToken)
            ELSE IF run.stdout = "recordNumber" THEN Number
            ELSE None
       ELSE None

(***************************************************************************)
(* The steps of handle_request that are pure.                              *)
(***************************************************************************)
\* int(...) of a Content-Length value; ok is FALSE where int raises ValueError
IntOf(v) ==
  CASE v = <<"0">> -> [ok |-> TRUE, n |-> 0]
    [] v = <<"1">> -> [ok |-> TRUE, n |-> 1]
    [] v = <<"2">> -> [ok |-> TRUE, n |-> 2]
    [] OTHER       -> [ok |-> FALSE, n |-> 0]

ContentLength(msg) == IntOf(MsgGet(msg, "Content-Length", <<"0">>))

\* The inner loop over DUMMY_TOKENS for one header value
RECURSIVE InjectValue(_, _, _)
InjectValue(value, dummies, real_token) ==
  IF dummies = <<>> THEN [value |-> value, replaced |-> FALSE]
  ELSE LET dummy == Head(dummies)
           hit   == StrContains(value, dummy)
           rest  == InjectValue(IF hit THEN StrReplace(value, dummy, real_token) ELSE value,
                                Tail(dummies), real_token)
       IN  [value |-> rest.value, replaced |-> hit \/ rest.replaced]

\* value.replace(dummy, real_token) raises TypeError when real_token is no
\* str; it is called for the first value that contains a placeholder
InjectRaises(hdrs, real_token) ==
  /\ ~real_token.isstr
  /\ \E i \in 1..Len(hdrs) : \E n \in 1..Len(DUMMY_TOKENS) :
       StrContains(hdrs[i][2], DUMMY_TOKENS[n])

\* (mutant) a loop that sets token_replaced whether or not it replaced
InjectCredentials_always(hdrs, real_token) ==
  [headers |-> [i \in 1..Len(hdrs) |->
                  <<hdrs[i][1], InjectValue(hdrs[i][2], DUMMY_TOKENS, real_token).value>>],
   token_replaced |-> TRUE]

\* (mutant) a loop that rewrites the first header only
InjectCredentials_one(hdrs, real_token) ==
  [headers |-> [i \in 1..Len(hdrs) |->
                  <<hdrs[i][1],
                    IF i = 1 THEN InjectValue(hdrs[i][2], DUMMY_TOKENS, real_token).value
                    ELSE hdrs[i][2]>>],
   token_replaced |-> \E i \in 1..Len(hdrs) :
                        InjectValue(hdrs[i][2], DUMMY_TOKENS, real_token).replaced]

\* "Inject real credentials": the rewritten dict and token_replaced
InjectCredentials(hdrs, real_token) ==
  [headers |-> [i \in 1..Len(hdrs) |->
                  <<hdrs[i][1], InjectValue(hdrs[i][2], DUMMY_TOKENS, real_token).value>>],
   token_replaced |-> \E i \in 1..Len(hdrs) :
                        InjectValue(hdrs[i][2], DUMMY_TOKENS, real_token).replaced]

\* urllib.request.Request(url, headers=hdrs): add_header for every item in
\* turn, which stores the value under key.capitalize(), the last one winning
RECURSIVE RequestHeaders(_, _)
RequestHeaders(hdrs, n) ==
  IF n = 0 THEN <<>>
  ELSE DictSet(RequestHeaders(hdrs, n - 1), Capitalize(hdrs[n][1]), hdrs[n][2])

\* "Fix headers"
FixHeaders(hdrs) ==
  DictSet(DictPop(DictPop(hdrs, "Content-Length"), "Connection"), "Host", UPSTREAM_HOST)

\* urlopen raises HTTPError for a final status outside 2xx
RaisesHTTPError(status) == status < 200 \/ status > 299

\* (mutant) a check that takes every 4xx for an expired token
IsUnauthorized_any4xx(code) == code >= 400 /\ code <= 499

\* `if e.code == 401`
IsUnauthorized(code) == code = 401

\* (mutant) a check that retries with whatever token the second fetch gave
ShouldRetry_always(fresh_token, real_token) == Truthy(fresh_token)

\* `if fresh_token and fresh_token != real_token`
ShouldRetry(fresh_token, real_token) == Truthy(fresh_token) /\ fresh_token # real_token

\* (mutant) an update that puts the fresh token in place of the whole value
RECURSIVE UpdateValue_whole(_, _, _, _)
UpdateValue_whole(value, dummies, real_token, fresh_token) ==
  IF dummies = <<>> THEN value
  ELSE UpdateValue_whole(IF StrContains(value, real_token) THEN fresh_token ELSE value,
                         Tail(dummies), real_token, fresh_token)

\* "Update headers with fresh token": the inner loop runs once per entry of
\* DUMMY_TOKENS, each time rewriting real_token into fresh_token
RECURSIVE UpdateValue(_, _, _, _)
UpdateValue(value, dummies, real_token, fresh_token) ==
  IF dummies = <<>> THEN value
  ELSE UpdateValue(IF StrContains(value, real_token)
                   THEN StrReplace(value, real_token, fresh_token)
                   ELSE value,
                   Tail(dummies), real_token, fresh_token)

\* value.replace(real_token, fresh_token) raises TypeError when fresh_token
\* is no str; it is called for the first value that contains real_token
UpdateRaises(hdrs, real_token, fresh_token) ==
  /\ ~fresh_token.isstr
  /\ \E i \in 1..Len(hdrs) : StrContains(hdrs[i][2], real_token.str)

\* (mutant) a retry that sends the headers of the first attempt again
UpdateHeaders_none(hdrs, real_token, fresh_token) == hdrs

UpdateHeaders(hdrs, real_token, fresh_token) ==
  [i \in 1..Len(hdrs) |->
     <<hdrs[i][1], UpdateValue(hdrs[i][2], DUMMY_TOKENS, real_token, fresh_token)>>]

\* (mutant) a filter that knows the canonical spelling only
Relayed_exact(items) ==
  SelectSeq(items, LAMBDA kv : kv[1] \notin {"Connection", "Transfer-Encoding"})

\* The response headers that are relayed
Relayed(items) ==
  SelectSeq(items, LAMBDA kv : Lower(kv[1]) \notin {"connection", "transfer-encoding"})

(***************************************************************************)
(* What the environment can do.                                            *)
(***************************************************************************)
Methods == {"GET", "POST", "PUT", "DELETE"}

\* The characters of inbound header values: "B" stands for text that is
\* neither placeholder nor token, "d" "q" spell the placeholder
ValChars == {"B", "d", "q"}

Bearer == <<"B">> \o DUMMY

Request(m, p, h, b) == [method |-> m, path |-> p, headers |-> h, entity |-> b]

\* Requests that differ in one header value
ValueFamily ==
  {Request("POST", "/v1/messages", << <<"Authorization", v>> >>, <<>>) :
     v \in Strings(ValChars, MaxValLen)}

\* Requests that differ in the names, the order and the number of headers
NamePool == {"Authorization", "authorization", "X-Api-Key"}

RECURSIVE HeaderLists(_)
HeaderLists(n) ==
  IF n = 0 THEN {<<>>}
  ELSE LET shorter == HeaderLists(n - 1)
       IN  shorter \cup {Append(h, <<k, v>>) :
                           h \in {x \in shorter : Len(x) = n - 1},
                           k \in NamePool, v \in {Bearer, <<"B">>}}

NameFamily ==
  {Request("POST", "/v1/messages", h, <<>>) : h \in HeaderLists(MaxHeaders)}

\* Requests that differ in method, path and body, with the headers a client
\* library sends; the last two have a Content-Length that is no number, and
\* one that promises more bytes than the client sends
Framed(cl) ==
  << <<"Host", <<"B">>>>, <<"Content-Length", cl>>,
     <<"Authorization", Bearer>>, <<"Connection", <<"B">>>> >>

TransferFamily ==
  {Request(m, p, << <<"Host", <<"B">>>>, <<"Authorization", Bearer>> >>, <<>>) :
     m \in Methods, p \in {"/v1/messages", "/v1/models?limit=1"}}
  \cup {Request(m, "/v1/messages", Framed(<<"1">>), <<"x">>) : m \in Methods}
  \cup {Request("POST", "/v1/messages", Framed(<<"2">>), <<"x", "y">>),
        Request("POST", "/v1/messages", Framed(<<"0">>), <<"x">>),
        Request("POST", "/v1/messages", Framed(<<"B">>), <<"x">>),
        Request("POST", "/v1/messages", Framed(<<"2">>), <<"x">>)}

\* Requests of clients that write header names their own way: all in lower
\* case, Connection in upper case, and Host twice in two casings
CasingFamily ==
  {Request("POST", "/v1/messages",
           << <<"host", <<"B">>>>, <<"content-length", <<"1">>>>,
              <<"authorization", Bearer>>, <<"connection", <<"B">>>> >>, <<"x">>),
   Request("GET", "/v1/messages",
           << <<"Host", <<"B">>>>, <<"CONNECTION", <<"B">>>>, <<"X-Api-Key", DUMMY>> >>, <<>>),
   Request("GET", "/v1/messages",
           << <<"Host", <<"B">>>>, <<"host", <<"B", "B">>>>, <<"Authorization", Bearer>> >>,
           <<>>),
   Request("GET", "/v1/messages",
           << <<"host", <<"B", "B">>>>, <<"Host", <<"B">>>>, <<"Authorization", Bearer>> >>,
           <<>>)}

Requests == ValueFamily \cup NameFamily \cup TransferFamily \cup CasingFamily

\* What urlopen can end in: a response (final status, headers in wire order,
\* body; complete is FALSE when reading the body fails), or no response at
\* all (connection refused, timeout, DNS failure)
Statuses == {200, 401, 403, 500}

\* The header blocks of upstream responses: a plain one, and one with the
\* connection-management headers in two casings and a repeated name
RespHeaderSets ==
  { << <<"Content-Type", "application/json">> >>,
    << <<"Connection", "keep-alive">>, <<"transfer-encoding", "chunked">>,
       <<"Set-Cookie", "a=1">>, <<"Content-Type", "text/plain">>,
       <<"Set-Cookie", "b=2">> >> }

RespBodies == {"body-1", "body-2"}

Response(s, h, b, c) ==
  [kind |-> "response", status |-> s, headers |-> h, body |-> b, complete |-> c]

NoResponse == [kind |-> "error", status |-> 0, headers |-> <<>>, body |-> "", complete |-> FALSE]

\* The complete responses: header block and body are passed along without
\* a look at either, so each header block comes with a body of its own
RespShapes ==
  {<<h, b>> \in RespHeaderSets \X RespBodies : (Len(h) = 1) <=> (b = "body-1")}

UpstreamOutcomes ==
  {Response(s, p[1], p[2], TRUE) : s \in Statuses, p \in RespShapes}
  \cup {Response(s, <<>>, "", FALSE) : s \in Statuses}
  \cup {NoResponse}

\* What one run of `claude -p` can end in: an exit status, or an exception
\* of subprocess.run (the 30 s timeout, an executable that is not there)
RefreshRuns ==
  {[raises |-> FALSE, returncode |-> 0], [raises |-> FALSE, returncode |-> 1],
   [raises |-> TRUE, returncode |-> 0]}

(***************************************************************************)
(* State.                                                                  *)
(***************************************************************************)
VARIABLES
  pc,           \* where handle_request stands
  request,      \* the inbound request: self.command, self.path, self.headers, self.rfile
  method,       \* handle_request's argument
  body,         \* local: the bytes read from rfile
  real_token,   \* local: the first adapter result
  fresh_token,  \* local: the adapter result after the refresh
  headers,      \* local: the dict handed to urllib.request.Request
  e,            \* the HTTPError the first urlopen raised
  answers,      \* what each urlopen ended in, in order
  refreshed,    \* the runs of `claude -p`, in order
  sent,         \* the requests handed to urlopen, in order
  client,       \* what was written to the client connection, in order
  escaped,      \* an exception left handle_request
  trace,        \* the external calls made, in order
  backlog,      \* the listening socket: connections made and not yet accepted
  served,       \* the connections the server has finished with: for each, the
                \* token its handler had fetched first
  port_in_use,  \* another process holds the port when main starts
  is_shut_down, \* the event serve_forever sets when it is left
  cli,          \* which of the two runpod.py scripts runs
  argv,         \* sys.argv of the script
  config_file,  \* the .runpod_config.json the script can find
  key_env,      \* where an ssh key can come from on this machine
  config,       \* the dict load_config returns
  started,      \* the processes subprocess.run has started, in order
  exit_status,  \* the exit status of the script (-1 while it runs)
  hook_data     \* the JSON document on the stdin of check-fallbacks.py

vars == <<pc, request, method, body, real_token, fresh_token, headers, e, answers,
          refreshed, sent, client, escaped, trace, backlog, served, port_in_use,
          is_shut_down, cli, argv, config_file, key_env, config, started, exit_status,
          hook_data>>

\* The state of the server around the one handler it runs
server == <<backlog, served, port_in_use, is_shut_down>>

\* The state of the command line scripts, which the proxy never touches
scripts == <<cli, argv, config_file, key_env, config, started, exit_status, hook_data>>

\* No script is running
NoPath == [abs |-> FALSE, parts |-> <<>>]

NoArgv == [command |-> "", rest |-> <<>>]

NoConfigFile ==
  [kind |-> "none", user |-> None, host |-> None, port |-> None, ssh_key |-> None,
   remote_dir |-> None]

NoKeyEnv == [container |-> FALSE, agent |-> "none", allowed |-> FALSE, is_file |-> FALSE]

NoConfig == [user |-> <<>>, host |-> <<>>, port |-> <<>>, remote_dir |-> <<>>]

NoHookData == [tool_name |-> "", content |-> <<>>, new_string |-> <<>>, file_path |-> <<>>]

NoScript ==
  /\ cli = ""
  /\ argv = NoArgv
  /\ config_file = NoConfigFile
  /\ key_env = NoKeyEnv
  /\ config = NoConfig
  /\ started = <<>>
  /\ exit_status = -1
  /\ hook_data = NoHookData

\* The status line and header block of one response, and its body
HeadOf(origin, status, hdrs) ==
  [kind |-> "head", origin |-> origin, status |-> status, headers |-> hdrs, data |-> ""]

BodyOf(origin, data) ==
  [kind |-> "body", origin |-> origin, status |-> 0, headers |-> <<>>, data |-> data]

\* self.send_error(code, message): a response of the proxy's own
send_error(code, message) ==
  << HeadOf("send_error", code, << <<"Connection", "close">>, <<"Content-Type", "text/html">> >>),
     BodyOf("send_error", message) >>

Init ==
  /\ pc = "idle"
  /\ request \in Requests
  /\ method = ""
  /\ body = <<>>
  /\ real_token = None
  /\ fresh_token = None
  /\ headers = <<>>
  /\ e = NoResponse
  /\ answers = <<>>
  /\ refreshed = <<>>
  /\ sent = <<>>
  /\ client = <<>>
  /\ escaped = FALSE
  /\ trace = <<>>
  /\ backlog = <<>>
  /\ served = <<>>
  /\ port_in_use = FALSE
  /\ is_shut_down = FALSE
  /\ NoScript

(***************************************************************************)
(* handle_request, one action per stretch of code between two external     *)
(* calls.                                                                  *)
(***************************************************************************)
\* (mutant) a Request built without method=: urllib takes POST whenever data
\* is given, and data is always given
Outbound_defaultMethod ==
  [url |-> <<ANTHROPIC_API_BASE, request.path>>, data |-> body,
   headers |-> headers, method |-> "POST",
   req_headers |-> RequestHeaders(headers, Len(headers))]

\* The request object built for urlopen: the arguments of Request(...), and
\* the header dict the object keeps of them
Outbound ==
  [url |-> <<ANTHROPIC_API_BASE, request.path>>, data |-> body,
   headers |-> headers, method |-> method,
   req_headers |-> RequestHeaders(headers, Len(headers))]

\* The relay of a response urlopen returned: status line and headers go out
\* first, then the body is read and written; when the read fails the
\* exception is raised with the head already written
RelayHead(resp) == HeadOf("relay", resp.status, Relayed(resp.headers))

\* (mutant) an error handling that answers 502 instead of relaying
OriginalErrorHandling_502(written, err) ==
  [client |-> written \o send_error(502, "Bad Gateway"), escaped |-> FALSE]

\* "Original error handling": e.read() comes first, and an exception of it
\* leaves the handler with nothing written; the headers pass through dict()
OriginalErrorHandling(written, err) ==
  IF err.complete
  THEN [client |-> written \o << HeadOf("relay", err.status, Relayed(DictOfMessage(err.headers))),
                                 BodyOf("relay", err.body) >>,
        escaped |-> FALSE]
  ELSE [client |-> written, escaped |-> TRUE]

\* Lines 66-67: Content-Length is parsed and that many bytes are read
Begin(m) ==
  /\ pc = "idle"
  /\ request.method = m
  /\ method' = m
  /\ LET cl == ContentLength(request.headers)
     IN  IF ~cl.ok
         THEN /\ pc' = "done"
              /\ escaped' = TRUE
              /\ body' = body
         ELSE IF cl.n > Len(request.entity)
         THEN /\ pc' = "blocked"
              /\ UNCHANGED <<escaped, body>>
         ELSE /\ pc' = "fetch"
              /\ body' = IF cl.n > 0 THEN SubSeq(request.entity, 1, cl.n) ELSE <<>>
              /\ escaped' = escaped
  /\ UNCHANGED <<request, real_token, fresh_token, headers, e, answers, refreshed, sent,
                 client, trace>>
  /\ UNCHANGED <<server, scripts>>

do_POST == Begin("POST")

do_GET == Begin("GET")

do_PUT == Begin("PUT")

do_DELETE == Begin("DELETE")

\* (mutant) an adapter that runs the script a second time when the first
\* run gave no token
FetchToken_retrying ==
  /\ pc = "fetch"
  /\ \E run \in CredentialRuns, again \in CredentialRuns :
       LET first == get_real_oauth_token(run)
       IN  /\ real_token' = IF Truthy(first) THEN first ELSE get_real_oauth_token(again)
           /\ trace' = IF Truthy(first) THEN Append(trace, "credentials")
                       ELSE trace \o <<"credentials", "credentials">>
           /\ IF ~Truthy(real_token')
              THEN /\ client' = client \o send_error(500, "No credentials found")
                   /\ pc' = "done"
              ELSE /\ client' = client
                   /\ pc' = "substitute"
  /\ UNCHANGED <<request, method, body, fresh_token, headers, e, answers, refreshed, sent,
                 escaped>>
  /\ UNCHANGED <<server, scripts>>

\* Lines 68-72
FetchToken ==
  /\ pc = "fetch"
  /\ \E run \in CredentialRuns :
       /\ real_token' = get_real_oauth_token(run)
       /\ trace' = Append(trace, "credentials")
       /\ IF ~Truthy(real_token')
          THEN /\ client' = client \o send_error(500, "No credentials found")
               /\ pc' = "done"
          ELSE /\ client' = client
               /\ pc' = "substitute"
  /\ UNCHANGED <<request, method, body, fresh_token, headers, e, answers, refreshed, sent,
                 escaped>>
  /\ UNCHANGED <<server, scripts>>

\* (mutant) a handler that answers 502 when it finds no placeholder
Inject_badgateway ==
  /\ pc = "substitute"
  /\ ~InjectRaises(DictOfMessage(request.headers), real_token)
  /\ LET inj == InjectCredentials(DictOfMessage(request.headers), real_token.str)
     IN  /\ headers' = inj.headers
         /\ IF ~inj.token_replaced
            THEN /\ client' = client \o send_error(502, "Bad Gateway")
                 /\ pc' = "done"
            ELSE /\ client' = client
                 /\ pc' = "fix"
  /\ UNCHANGED <<request, method, body, real_token, fresh_token, e, answers, refreshed, sent,
                 escaped, trace>>
  /\ UNCHANGED <<server, scripts>>

\* (mutant) a substitution that works on self.headers itself, not on a copy
Inject_inplace ==
  /\ pc = "substitute"
  /\ LET inj == InjectCredentials(DictOfMessage(request.headers), real_token.str)
     IN  /\ headers' = inj.headers
         /\ request' = [request EXCEPT !.headers = inj.headers]
         /\ IF ~inj.token_replaced
            THEN /\ client' = client \o send_error(500, "No dummy tokens found to replace")
                 /\ pc' = "done"
            ELSE /\ client' = client
                 /\ pc' = "fix"
  /\ UNCHANGED <<method, body, real_token, fresh_token, e, answers, refreshed, sent,
                 escaped, trace>>
  /\ UNCHANGED <<server, scripts>>

\* Lines 74-89: the dict of the inbound headers, the substitution loop and
\* the check of token_replaced
Inject ==
  /\ pc = "substitute"
  /\ IF InjectRaises(DictOfMessage(request.headers), real_token)
     THEN /\ pc' = "done"
          /\ escaped' = TRUE
          /\ UNCHANGED <<headers, client>>
     ELSE LET inj == InjectCredentials(DictOfMessage(request.headers), real_token.str)
          IN  /\ headers' = inj.headers
              /\ escaped' = escaped
              /\ IF ~inj.token_replaced
                 THEN /\ client' = client \o send_error(500, "No dummy tokens found to replace")
                      /\ pc' = "done"
                 ELSE /\ client' = client
                      /\ pc' = "fix"
  /\ UNCHANGED <<request, method, body, real_token, fresh_token, e, answers, refreshed, sent,
                 trace>>
  /\ UNCHANGED <<server, scripts>>

\* Lines 91-94
Fix ==
  /\ pc = "fix"
  /\ headers' = FixHeaders(headers)
  /\ pc' = "forward"
  /\ UNCHANGED <<request, method, body, real_token, fresh_token, e, answers, refreshed, sent,
                 client, escaped, trace>>
  /\ UNCHANGED <<server, scripts>>

\* (mutant) a first attempt that takes a transport error for an expired
\* token and goes on to the refresh
Forward_refreshing ==
  /\ pc = "forward"
  /\ \E o \in UpstreamOutcomes :
       /\ sent' = Append(sent, Outbound)
       /\ answers' = Append(answers, o)
       /\ trace' = Append(trace, "urlopen")
       /\ IF o.kind = "error" \/ IsUnauthorized(o.status)
          THEN /\ e' = o
               /\ pc' = "refresh"
               /\ UNCHANGED <<client, escaped>>
          ELSE IF ~RaisesHTTPError(o.status)
          THEN /\ client' = IF o.complete
                            THEN client \o <<RelayHead(o), BodyOf("relay", o.body)>>
                            ELSE client \o <<RelayHead(o)>> \o send_error(502, "Bad Gateway")
               /\ pc' = "done"
               /\ UNCHANGED <<e, escaped>>
          ELSE /\ e' = o
               /\ client' = OriginalErrorHandling(client, o).client
               /\ escaped' = OriginalErrorHandling(client, o).escaped
               /\ pc' = "done"
  /\ UNCHANGED <<request, method, body, real_token, fresh_token, headers, refreshed>>
  /\ UNCHANGED <<server, scripts>>

\* (mutant) a first attempt that relays a 401 at once and refreshes after
Forward_eager ==
  /\ pc = "forward"
  /\ \E o \in UpstreamOutcomes :
       /\ sent' = Append(sent, Outbound)
       /\ answers' = Append(answers, o)
       /\ trace' = Append(trace, "urlopen")
       /\ IF o.kind = "error"
          THEN /\ client' = client \o send_error(502, "Bad Gateway")
               /\ pc' = "done"
               /\ UNCHANGED <<e, escaped>>
          ELSE IF ~RaisesHTTPError(o.status)
          THEN /\ client' = IF o.complete
                            THEN client \o <<RelayHead(o), BodyOf("relay", o.body)>>
                            ELSE client \o <<RelayHead(o)>> \o send_error(502, "Bad Gateway")
               /\ pc' = "done"
               /\ UNCHANGED <<e, escaped>>
          ELSE /\ e' = o
               /\ client' = OriginalErrorHandling(client, o).client
               /\ escaped' = OriginalErrorHandling(client, o).escaped
               /\ pc' = IF IsUnauthorized(o.status) THEN "refresh" ELSE "done"
  /\ UNCHANGED <<request, method, body, real_token, fresh_token, headers, refreshed>>
  /\ UNCHANGED <<server, scripts>>

\* Lines 96-108 and 148-160: the first urlopen and what follows it up to the
\* next external call
Forward ==
  /\ pc = "forward"
  /\ \E o \in UpstreamOutcomes :
       /\ sent' = Append(sent, Outbound)
       /\ answers' = Append(answers, o)
       /\ trace' = Append(trace, "urlopen")
       /\ IF o.kind = "error"
          THEN /\ client' = client \o send_error(502, "Bad Gateway")
               /\ pc' = "done"
               /\ UNCHANGED <<e, escaped>>
          ELSE IF ~RaisesHTTPError(o.status)
          THEN /\ client' = IF o.complete
                            THEN client \o <<RelayHead(o), BodyOf("relay", o.body)>>
                            ELSE client \o <<RelayHead(o)>> \o send_error(502, "Bad Gateway")
               /\ pc' = "done"
               /\ UNCHANGED <<e, escaped>>
          ELSE IF IsUnauthorized(o.status)
          THEN /\ e' = o
               /\ pc' = "refresh"
               /\ UNCHANGED <<client, escaped>>
          ELSE /\ e' = o
               /\ client' = OriginalErrorHandling(client, o).client
               /\ escaped' = OriginalErrorHandling(client, o).escaped
               /\ pc' = "done"
  /\ UNCHANGED <<request, method, body, real_token, fresh_token, headers, refreshed>>
  /\ UNCHANGED <<server, scripts>>

\* (mutant) a refresh whose own failure is swallowed on the spot, so that
\* the handler goes on to fetch the credentials again
Refresh_swallowing ==
  /\ pc = "refresh"
  /\ \E run \in RefreshRuns :
       /\ refreshed' = Append(refreshed, run)
       /\ trace' = Append(trace, "refresh")
       /\ pc' = "refetch"
  /\ UNCHANGED <<request, method, body, real_token, fresh_token, headers, e, answers, sent,
                 client, escaped>>
  /\ UNCHANGED <<server, scripts>>

\* (mutant) a refresh run with check=True: a non-zero exit raises too
Refresh_checked ==
  /\ pc = "refresh"
  /\ \E run \in RefreshRuns :
       /\ refreshed' = Append(refreshed, run)
       /\ trace' = Append(trace, "refresh")
       /\ IF run.raises \/ run.returncode # 0
          THEN /\ client' = OriginalErrorHandling(client, e).client
               /\ escaped' = OriginalErrorHandling(client, e).escaped
               /\ pc' = "done"
          ELSE /\ pc' = "refetch"
               /\ UNCHANGED <<client, escaped>>
  /\ UNCHANGED <<request, method, body, real_token, fresh_token, headers, e, answers, sent>>
  /\ UNCHANGED <<server, scripts>>

\* Lines 109-114: `claude -p`; an exception of subprocess.run is caught at
\* line 145 and falls through to the original error handling
Refresh ==
  /\ pc = "refresh"
  /\ \E run \in RefreshRuns :
       /\ refreshed' = Append(refreshed, run)
       /\ trace' = Append(trace, "refresh")
       /\ IF run.raises
          THEN /\ client' = OriginalErrorHandling(client, e).client
               /\ escaped' = OriginalErrorHandling(client, e).escaped
               /\ pc' = "done"
          ELSE /\ pc' = "refetch"
               /\ UNCHANGED <<client, escaped>>
  /\ UNCHANGED <<request, method, body, real_token, fresh_token, headers, e, answers, sent>>
  /\ UNCHANGED <<server, scripts>>

\* (mutant) a second fetch that, like the first, answers 500 without a token
Refetch_strict ==
  /\ pc = "refetch"
  /\ \E run \in CredentialRuns :
       /\ fresh_token' = get_real_oauth_token(run)
       /\ trace' = Append(trace, "credentials")
       /\ IF ~Truthy(fresh_token')
          THEN /\ headers' = headers
               /\ client' = client \o send_error(500, "No credentials found")
               /\ escaped' = escaped
               /\ pc' = "done"
          ELSE IF /\ ShouldRetry(fresh_token', real_token)
                  /\ ~UpdateRaises(headers, real_token, fresh_token')
          THEN /\ headers' = UpdateHeaders(headers, real_token.str, fresh_token'.str)
               /\ pc' = "retry"
               /\ UNCHANGED <<client, escaped>>
          ELSE /\ headers' = headers
               /\ client' = OriginalErrorHandling(client, e).client
               /\ escaped' = OriginalErrorHandling(client, e).escaped
               /\ pc' = "done"
  /\ UNCHANGED <<request, method, body, real_token, e, answers, refreshed, sent>>
  /\ UNCHANGED <<server, scripts>>

\* Lines 116-125; a TypeError of the update loop is caught at line 145 and
\* falls through to the original error handling
Refetch ==
  /\ pc = "refetch"
  /\ \E run \in CredentialRuns :
       /\ fresh_token' = get_real_oauth_token(run)
       /\ trace' = Append(trace, "credentials")
       /\ IF /\ ShouldRetry(fresh_token', real_token)
             /\ ~UpdateRaises(headers, real_token, fresh_token')
          THEN /\ headers' = UpdateHeaders(headers, real_token.str, fresh_token'.str)
               /\ pc' = "retry"
               /\ UNCHANGED <<client, escaped>>
          ELSE /\ headers' = headers
               /\ client' = OriginalErrorHandling(client, e).client
               /\ escaped' = OriginalErrorHandling(client, e).escaped
               /\ pc' = "done"
  /\ UNCHANGED <<request, method, body, real_token, e, answers, refreshed, sent>>
  /\ UNCHANGED <<server, scripts>>

\* (mutant) a retry that, answered 401 again, refreshes again
Retry_again ==
  /\ pc = "retry"
  /\ \E o \in UpstreamOutcomes :
       /\ sent' = Append(sent, Outbound)
       /\ answers' = Append(answers, o)
       /\ trace' = Append(trace, "urlopen")
       /\ IF o.kind = "response" /\ ~RaisesHTTPError(o.status) /\ o.complete
          THEN /\ client' = client \o <<RelayHead(o), BodyOf("relay", o.body)>>
               /\ pc' = "done"
          ELSE IF o.kind = "response" /\ IsUnauthorized(o.status)
          THEN /\ client' = client
               /\ pc' = "refresh"
          ELSE /\ client' = OriginalErrorHandling(client, e).client
               /\ pc' = "done"
  /\ UNCHANGED <<request, method, body, real_token, fresh_token, headers, e, refreshed,
                 escaped>>
  /\ UNCHANGED <<server, scripts>>

\* (mutant) a retry whose own outcome is final: an HTTP error of the second
\* call is relayed, a transport error answered 502
Retry_final ==
  /\ pc = "retry"
  /\ \E o \in UpstreamOutcomes :
       /\ sent' = Append(sent, Outbound)
       /\ answers' = Append(answers, o)
       /\ trace' = Append(trace, "urlopen")
       /\ IF o.kind = "error"
          THEN /\ client' = client \o send_error(502, "Bad Gateway")
               /\ escaped' = escaped
          ELSE IF ~RaisesHTTPError(o.status)
          THEN /\ client' = IF o.complete
                            THEN client \o <<RelayHead(o), BodyOf("relay", o.body)>>
                            ELSE client \o <<RelayHead(o)>> \o send_error(502, "Bad Gateway")
               /\ escaped' = escaped
          ELSE /\ client' = OriginalErrorHandling(client, o).client
               /\ escaped' = OriginalErrorHandling(client, o).escaped
       /\ pc' = "done"
  /\ UNCHANGED <<request, method, body, real_token, fresh_token, headers, e, refreshed>>
  /\ UNCHANGED <<server, scripts>>

\* Lines 127-157: the second urlopen; whatever it raises is caught at line
\* 145 and falls through to the original error handling
Retry ==
  /\ pc = "retry"
  /\ \E o \in UpstreamOutcomes :
       /\ sent' = Append(sent, Outbound)
       /\ answers' = Append(answers, o)
       /\ trace' = Append(trace, "urlopen")
       /\ IF o.kind = "response" /\ ~RaisesHTTPError(o.status) /\ o.complete
          THEN /\ client' = client \o <<RelayHead(o), BodyOf("relay", o.body)>>
               /\ escaped' = escaped
          ELSE LET written == IF o.kind = "response" /\ ~RaisesHTTPError(o.status)
                              THEN client \o <<RelayHead(o)>>
                              ELSE client
               IN  /\ client' = OriginalErrorHandling(written, e).client
                   /\ escaped' = OriginalErrorHandling(written, e).escaped
       /\ pc' = "done"
  /\ UNCHANGED <<request, method, body, real_token, fresh_token, headers, e, refreshed>>
  /\ UNCHANGED <<server, scripts>>

Next ==
  \/ do_POST
  \/ do_GET
  \/ do_PUT
  \/ do_DELETE
  \/ FetchToken
  \/ Inject
  \/ Fix
  \/ Forward
  \/ Refresh
  \/ Refetch
  \/ Retry

Spec == Init /\ [][Next]_vars

(***************************************************************************)
(* The server of main(): HTTPServer is socketserver.TCPServer without a    *)
(* threading or forking mix-in, so serve_forever accepts one connection,   *)
(* runs its handler to the end in the same thread, and only then accepts   *)
(* the next. Connections made meanwhile wait in the listening socket.      *)
(***************************************************************************)
\* No request: the handler variables between two connections
NoRequest == Request("", "", <<>>, <<>>)

\* The requests the clients of the server send
ServerRequests ==
  {Request(m, "/v1/models?limit=1",
           << <<"Host", <<"B">>>>, <<"Authorization", Bearer>> >>, <<>>) :
     m \in {"GET", "DELETE"}}
  \cup {Request(m, "/v1/messages", Framed(<<"1">>), <<"x">>) : m \in {"POST", "PUT"}}

ServerInit ==
  /\ pc = "listening"
  /\ request = NoRequest
  /\ method = ""
  /\ body = <<>>
  /\ real_token = None
  /\ fresh_token = None
  /\ headers = <<>>
  /\ e = NoResponse
  /\ answers = <<>>
  /\ refreshed = <<>>
  /\ sent = <<>>
  /\ client = <<>>
  /\ escaped = FALSE
  /\ trace = <<>>
  /\ backlog = <<>>
  /\ served = <<>>
  /\ port_in_use = FALSE
  /\ is_shut_down = FALSE
  /\ NoScript

\* A client connects and sends its request: the kernel completes the
\* connection on the listening socket whatever the server is doing
Connect ==
  /\ pc \notin {"start", "exit1", "interrupted", "returned"}
  /\ Len(backlog) + Len(served) + (IF pc = "listening" THEN 0 ELSE 1) < MaxClients
  /\ \E r \in ServerRequests : backlog' = Append(backlog, r)
  /\ UNCHANGED <<pc, request, method, body, real_token, fresh_token, headers, e, answers,
                 refreshed, sent, client, escaped, trace, served, port_in_use, is_shut_down>>
  /\ UNCHANGED scripts

\* serve_forever, with no handler running: accept the oldest connection and
\* construct its handler, which parses the request and calls do_<command>
Dispatch ==
  /\ pc = "listening"
  /\ backlog # <<>>
  /\ request' = Head(backlog)
  /\ backlog' = Tail(backlog)
  /\ pc' = "idle"
  /\ UNCHANGED <<method, body, real_token, fresh_token, headers, e, answers, refreshed, sent,
                 client, escaped, trace, served, port_in_use, is_shut_down>>
  /\ UNCHANGED scripts

\* (mutant) a handler that keeps the tokens it fetched in the server object,
\* where the next handler finds them
Finish_keeping ==
  /\ pc = "done"
  /\ served' = Append(served, real_token)
  /\ pc' = "listening"
  /\ request' = NoRequest
  /\ method' = ""
  /\ body' = <<>>
  /\ headers' = <<>>
  /\ e' = NoResponse
  /\ answers' = <<>>
  /\ refreshed' = <<>>
  /\ sent' = <<>>
  /\ client' = <<>>
  /\ escaped' = FALSE
  /\ trace' = <<>>
  /\ UNCHANGED <<backlog, real_token, fresh_token, port_in_use, is_shut_down>>
  /\ UNCHANGED scripts

\* The handler has returned, or an exception left it (handle_error logs it):
\* the connection is shut down and serve_forever goes round; the locals of
\* handle_request are gone with its frame
Finish ==
  /\ pc = "done"
  /\ served' = Append(served, real_token)
  /\ pc' = "listening"
  /\ request' = NoRequest
  /\ method' = ""
  /\ body' = <<>>
  /\ real_token' = None
  /\ fresh_token' = None
  /\ headers' = <<>>
  /\ e' = NoResponse
  /\ answers' = <<>>
  /\ refreshed' = <<>>
  /\ sent' = <<>>
  /\ client' = <<>>
  /\ escaped' = FALSE
  /\ trace' = <<>>
  /\ UNCHANGED <<backlog, port_in_use, is_shut_down>>
  /\ UNCHANGED scripts

ServerNext ==
  \/ Connect
  \/ Dispatch
  \/ Finish
  \/ do_POST
  \/ do_GET
  \/ do_PUT
  \/ do_DELETE
  \/ FetchToken
  \/ Inject
  \/ Fix
  \/ Forward
  \/ Refresh
  \/ Refetch
  \/ Retry

ServerSpec == ServerInit /\ [][ServerNext]_vars

(***************************************************************************)
(* main(): the listener is bound, serve_forever runs until it is           *)
(* interrupted, and the two except clauses end the process.                *)
(***************************************************************************)
MainInit ==
  /\ pc = "start"
  /\ request = NoRequest
  /\ method = ""
  /\ body = <<>>
  /\ real_token = None
  /\ fresh_token = None
  /\ headers = <<>>
  /\ e = NoResponse
  /\ answers = <<>>
  /\ refreshed = <<>>
  /\ sent = <<>>
  /\ client = <<>>
  /\ escaped = FALSE
  /\ trace = <<>>
  /\ backlog = <<>>
  /\ served = <<>>
  /\ port_in_use \in BOOLEAN
  /\ is_shut_down = FALSE
  /\ NoScript

\* Line 173: HTTPServer(...) binds and listens, or raises OSError, which
\* line 181 answers with sys.exit(1)
Bind ==
  /\ pc = "start"
  /\ pc' = IF port_in_use THEN "exit1" ELSE "listening"
  /\ UNCHANGED <<request, method, body, real_token, fresh_token, headers, e, answers,
                 refreshed, sent, client, escaped, trace>>
  /\ UNCHANGED <<server, scripts>>

\* (mutant) an interrupt caught with the serving loop still marked running
Interrupt_inloop ==
  /\ pc \notin {"start", "exit1", "interrupted", "returned"}
  /\ pc' = "interrupted"
  /\ is_shut_down' = FALSE
  /\ request' = NoRequest
  /\ method' = ""
  /\ body' = <<>>
  /\ real_token' = None
  /\ fresh_token' = None
  /\ headers' = <<>>
  /\ e' = NoResponse
  /\ answers' = <<>>
  /\ refreshed' = <<>>
  /\ sent' = <<>>
  /\ client' = <<>>
  /\ escaped' = FALSE
  /\ trace' = <<>>
  /\ UNCHANGED <<backlog, served, port_in_use>>
  /\ UNCHANGED scripts

\* KeyboardInterrupt while serve_forever runs, in the loop or in a handler:
\* it is no Exception, so nothing on the way catches it; the finally clause
\* of serve_forever sets the event, and line 179 has the exception
Interrupt ==
  /\ pc \notin {"start", "exit1", "interrupted", "returned"}
  /\ pc' = "interrupted"
  /\ is_shut_down' = TRUE
  /\ request' = NoRequest
  /\ method' = ""
  /\ body' = <<>>
  /\ real_token' = None
  /\ fresh_token' = None
  /\ headers' = <<>>
  /\ e' = NoResponse
  /\ answers' = <<>>
  /\ refreshed' = <<>>
  /\ sent' = <<>>
  /\ client' = <<>>
  /\ escaped' = FALSE
  /\ trace' = <<>>
  /\ UNCHANGED <<backlog, served, port_in_use>>
  /\ UNCHANGED scripts

\* Line 180: server.shutdown() asks the loop to stop and waits for the
\* event; main returns when the wait is over
Shutdown ==
  /\ pc = "interrupted"
  /\ is_shut_down
  /\ pc' = "returned"
  /\ UNCHANGED <<request, method, body, real_token, fresh_token, headers, e, answers,
                 refreshed, sent, client, escaped, trace>>
  /\ UNCHANGED <<server, scripts>>

MainNext ==
  \/ Bind
  \/ Interrupt
  \/ Shutdown
  \/ ServerNext

MainSpec == MainInit /\ [][MainNext]_vars

(***************************************************************************)
(* Vocabulary of the properties.                                           *)
(***************************************************************************)
\* how often event ev occurs in sequence t
Count(t, ev) == Cardinality({i \in 1..Len(t) : t[i] = ev})

\* the places where pat starts in v
Occurrences(v, pat) ==
  {i \in 1..(Len(v) - Len(pat) + 1) : SubSeq(v, i, i + Len(pat) - 1) = pat}

\* of these, the ones a reader going left to right counts: an occurrence that
\* begins inside a counted one is not counted
Counted(v, pat) ==
  CHOOSE P \in SUBSET Occurrences(v, pat) :
    \A i \in Occurrences(v, pat) :
      (i \in P) <=> ~(\E j \in P : j < i /\ i < j + Len(pat))

\* v with the text at every counted occurrence of pat given up for new, and
\* every other character where it was
RECURSIVE Pieces(_, _, _, _, _)
Pieces(v, pat, new, P, i) ==
  IF i > Len(v) THEN <<>>
  ELSE (IF i \in P THEN new
        ELSE IF \E j \in P : j < i /\ i < j + Len(pat) THEN <<>>
        ELSE <<v[i]>>) \o Pieces(v, pat, new, P, i + 1)

Rewritten(v, pat, new) == Pieces(v, pat, new, Counted(v, pat), 1)

\* a and b overlap: one lies within the other, or an end of one is a start
\* of the other
Overlap(a, b) ==
  \/ StrContains(a, b)
  \/ StrContains(b, a)
  \/ \E n \in 1..Len(a) :
       /\ n <= Len(b)
       /\ \/ SubSeq(a, 1, n) = SubSeq(b, Len(b) - n + 1, Len(b))
          \/ SubSeq(a, Len(a) - n + 1, Len(a)) = SubSeq(b, 1, n)

\* some value of the header sequence hdrs contains pat
AnyValueContains(hdrs, pat) == \E i \in 1..Len(hdrs) : StrContains(hdrs[i][2], pat)

\* the handler has returned
Done == pc = "done"

\* the first urlopen raised HTTPError 401
FirstWas401 ==
  Len(answers) >= 1 /\ answers[1].kind = "response" /\ answers[1].status = 401

\* what the original error handling writes for the first attempt's response
FirstRelayed ==
  << HeadOf("relay", answers[1].status, Relayed(DictOfMessage(answers[1].headers))),
     BodyOf("relay", answers[1].body) >>

\* the dict the substitution loop starts from
InboundDict == DictOfMessage(request.headers)

\* some value of hdrs contains one of the placeholders
HoldsPlaceholder(hdrs) ==
  \E n \in 1..Len(DUMMY_TOKENS) : AnyValueContains(hdrs, DUMMY_TOKENS[n])

\* the token of the i-th attempt
TokenOf(i) == IF i = 1 THEN real_token.str ELSE fresh_token.str

\* the characters of a string
CharsOf(v) == {v[i] : i \in 1..Len(v)}

(***************************************************************************)
(* C1: per client request, whatever the upstream answers, `claude -p` is   *)
(* run at most once and urlopen is called at most twice.                   *)
(***************************************************************************)
C1_SingleRetryBound ==
  /\ Len(refreshed) <= 1
  /\ Count(trace, "refresh") <= 1
  /\ Len(sent) <= 2
  /\ Count(trace, "urlopen") <= 2

\* an upstream that answered 401 to both calls
C1_Witness ==
  /\ Done
  /\ Len(answers) = 2
  /\ FirstWas401
  /\ answers[2].kind = "response" /\ answers[2].status = 401
  /\ Len(refreshed) = 1

(***************************************************************************)
(* C2, as claimed: in every request handed to urlopen no header value      *)
(* contains a placeholder, and every inbound value that held the           *)
(* placeholder is forwarded with the token of that attempt in its place.   *)
(***************************************************************************)
C2_AsClaimed ==
  \A i \in 1..Len(sent) :
    /\ ~HoldsPlaceholder(sent[i].headers)
    /\ \A j \in 1..Len(request.headers) :
         LET k == request.headers[j][1]
             v == request.headers[j][2]
         IN  (StrContains(v, DUMMY) /\ k \notin {"Content-Length", "Connection", "Host"})
               => /\ DictHas(sent[i].headers, k)
                  /\ DictGet(sent[i].headers, k) = Rewritten(v, DUMMY, TokenOf(i))

(***************************************************************************)
(* C2, amended: in every request handed to urlopen, each header but Host   *)
(* carries the value dict(self.headers) holds under its name with every    *)
(* placeholder replaced by the first token and, on the retry, every        *)
(* occurrence of the first token then replaced by the second - which is    *)
(* the inbound value with the second token for the placeholder when the    *)
(* first token shares no character with that value. No forwarded value     *)
(* contains the placeholder provided the tokens of the request do not      *)
(* overlap the placeholder.                                                *)
(***************************************************************************)
C2_Forwarded ==
  sent # <<>> =>
    LET d  == InboundDict
        t1 == real_token.str
        t2 == fresh_token.str
    IN  \A i \in 1..Len(sent) :
          /\ \A j \in 1..Len(d) :
               d[j][1] \notin {"Content-Length", "Connection", "Host"}
                 => DictHas(sent[i].headers, d[j][1])
          /\ \A n \in 1..Len(sent[i].headers) :
               LET k  == sent[i].headers[n][1]
                   w  == sent[i].headers[n][2]
               IN  k # "Host" =>
                     /\ DictHas(d, k)
                     /\ LET v  == DictGet(d, k)
                            w1 == Rewritten(v, DUMMY, t1)
                        IN  /\ i = 1 => w = w1
                            /\ i = 2 => w = Rewritten(w1, t1, t2)
                            /\ (i = 2 /\ CharsOf(t1) \cap CharsOf(v) = {})
                                 => w = Rewritten(v, DUMMY, t2)
                            /\ (\A a \in 1..i : ~Overlap(TokenOf(a), DUMMY))
                                 => ~StrContains(w, DUMMY)

\* a retry whose two tokens do not overlap the placeholder, for a request
\* with the placeholder embedded in a header value
C2_Witness ==
  /\ Len(sent) = 2
  /\ ~Overlap(real_token.str, DUMMY) /\ ~Overlap(fresh_token.str, DUMMY)
  /\ \E n \in 1..Len(sent[2].headers) :
       /\ sent[2].headers[n][1] # "Host"
       /\ StrContains(DictGet(InboundDict, sent[2].headers[n][1]), DUMMY)
       /\ DictGet(InboundDict, sent[2].headers[n][1]) # DUMMY
       /\ StrContains(sent[2].headers[n][2], fresh_token.str)

(***************************************************************************)
(* C3: when a token was fetched and no inbound header value contains a     *)
(* placeholder, the handler calls urlopen zero times, never runs the       *)
(* refresher and answers 500.                                              *)
(***************************************************************************)
C3_FailClosed ==
  (/\ ~real_token.none /\ real_token.str # <<>>
   /\ ~HoldsPlaceholder(request.headers))
    => /\ sent = <<>>
       /\ refreshed = <<>>
       /\ Count(trace, "urlopen") = 0
       /\ pc \in {"substitute", "done"}
       /\ Done => /\ client = send_error(500, "No dummy tokens found to replace")
                  /\ ~escaped

C3_Witness ==
  /\ Done
  /\ ~real_token.none /\ real_token.str # <<>>
  /\ request.headers # <<>>
  /\ ~HoldsPlaceholder(request.headers)
  /\ Len(client) = 2 /\ client[1].status = 500

(***************************************************************************)
(* C4: when the first credential fetch is unavailable the handler answers  *)
(* 500, calls urlopen zero times, never runs the refresher and does not    *)
(* fetch again.                                                            *)
(***************************************************************************)
C4_NoCredentials ==
  (trace # <<>> /\ (real_token.none \/ (real_token.isstr /\ real_token.str = <<>>)))
    => /\ Done
       /\ client = send_error(500, "No credentials found")
       /\ ~escaped
       /\ sent = <<>>
       /\ refreshed = <<>>
       /\ trace = <<"credentials">>

C4_Witness ==
  /\ Done
  /\ real_token.none
  /\ HoldsPlaceholder(request.headers)
  /\ trace = <<"credentials">>
  /\ client[1].status = 500

(***************************************************************************)
(* C5, as claimed: after the substitution loop no header value contains    *)
(* the placeholder, and every value is the one before the loop with each   *)
(* placeholder replaced by the real token and the rest unchanged.          *)
(***************************************************************************)
C5_AsClaimed ==
  pc = "fix" =>
    \A i \in 1..Len(headers) :
      /\ ~StrContains(headers[i][2], DUMMY)
      /\ headers[i][2] = Rewritten(InboundDict[i][2], DUMMY, real_token.str)

(***************************************************************************)
(* C5, amended: after the substitution loop every header keeps its name    *)
(* and its value is the one before the loop with each placeholder replaced *)
(* by the real token and the rest unchanged; no value contains the         *)
(* placeholder provided the real token does not overlap the placeholder.   *)
(***************************************************************************)
C5_Substitution ==
  pc = "fix" =>
    /\ Len(headers) = Len(InboundDict)
    /\ \A i \in 1..Len(headers) :
         /\ headers[i][1] = InboundDict[i][1]
         /\ headers[i][2] = Rewritten(InboundDict[i][2], DUMMY, real_token.str)
         /\ ~Overlap(real_token.str, DUMMY) => ~StrContains(headers[i][2], DUMMY)

\* the placeholder twice in one value, next to other text
C5_Witness ==
  /\ pc = "fix"
  /\ ~Overlap(real_token.str, DUMMY)
  /\ \E i \in 1..Len(headers) :
       /\ Cardinality(Occurrences(InboundDict[i][2], DUMMY)) = 2
       /\ headers[i][2] = real_token.str \o real_token.str

\* the i-th urlopen returned a response with a 2xx status and its body was
\* read in full
Succeeded(i) ==
  /\ answers[i].kind = "response"
  /\ answers[i].status >= 200 /\ answers[i].status <= 299
  /\ answers[i].complete

\* the relay of the i-th response as urlopen returned it
RelayOf(i) ==
  << HeadOf("relay", answers[i].status,
            SelectSeq(answers[i].headers,
                      LAMBDA kv : Lower(kv[1]) \notin {"connection", "transfer-encoding"})),
     BodyOf("relay", answers[i].body) >>

\* the client holds the first attempt's response, as far as it could be read
FellBackToFirst ==
  IF answers[1].complete THEN client = FirstRelayed /\ ~escaped
  ELSE client = <<>> /\ escaped

(***************************************************************************)
(* C6: when the first urlopen ends in a response whose status is not 401   *)
(* and whose body is read, the client receives exactly that status and     *)
(* body, the refresher never runs, the credentials are fetched once and    *)
(* urlopen is called once.                                                 *)
(***************************************************************************)
C6_StatusPassthrough ==
  (/\ Len(answers) >= 1
   /\ answers[1].kind = "response" /\ answers[1].complete
   /\ answers[1].status # 401)
    => /\ Done
       /\ Len(client) = 2
       /\ client[1].kind = "head" /\ client[1].origin = "relay"
       /\ client[1].status = answers[1].status
       /\ client[2].kind = "body" /\ client[2].data = answers[1].body
       /\ ~escaped
       /\ refreshed = <<>>
       /\ trace = <<"credentials", "urlopen">>
       /\ Len(sent) = 1

\* a 403 with a body, relayed
C6_Witness ==
  /\ Done
  /\ Len(answers) = 1
  /\ answers[1].kind = "response" /\ answers[1].status = 403
  /\ answers[1].body = "body-2"
  /\ client[1].status = 403 /\ client[2].data = "body-2"

(***************************************************************************)
(* C7, as claimed: after a first 401 the refresher runs exactly once, the  *)
(* credentials are then fetched again, a token that differs from the first *)
(* replaces it in the retried request, and a success of the retry is what  *)
(* the client receives.                                                    *)
(***************************************************************************)
C7_AsClaimed ==
  (Done /\ FirstWas401)
    => /\ Len(refreshed) = 1
       /\ Count(trace, "credentials") = 2
       /\ (~fresh_token.none /\ fresh_token.str # <<>> /\ fresh_token # real_token)
            => /\ Len(sent) = 2
               /\ \A n \in 1..Len(sent[1].headers) :
                    sent[2].headers[n][2] =
                      Rewritten(sent[1].headers[n][2], real_token.str, fresh_token.str)
       /\ (Len(answers) = 2 /\ Succeeded(2)) => client = RelayOf(2)

(***************************************************************************)
(* C7, amended: after a first 401 the refresher runs exactly once; if that *)
(* run returns, with whatever exit status, the credentials are fetched     *)
(* again; a second token that differs from the first replaces every        *)
(* occurrence of the first in the headers of the retried request, which is *)
(* otherwise the first request; and a success of the retry is what the     *)
(* client receives. (A refresher run that raises ends the handling with no *)
(* second fetch.)                                                          *)
(***************************************************************************)
C7_RefreshAndRetry ==
  FirstWas401
    => /\ pc # "refresh" => (Len(refreshed) = 1 /\ Count(trace, "refresh") = 1)
       /\ (Len(refreshed) = 1 /\ ~refreshed[1].raises /\ pc # "refetch")
            => /\ Count(trace, "credentials") = 2
               /\ SubSeq(trace, 1, 4) = <<"credentials", "urlopen", "refresh", "credentials">>
       /\ (/\ Done
           /\ Count(trace, "credentials") = 2
           /\ ~fresh_token.none /\ fresh_token.str # <<>> /\ fresh_token # real_token)
            => /\ Len(sent) = 2
               /\ sent[2].url = sent[1].url /\ sent[2].data = sent[1].data
               /\ sent[2].method = sent[1].method
               /\ Len(sent[2].headers) = Len(sent[1].headers)
               /\ \A n \in 1..Len(sent[1].headers) :
                    /\ sent[2].headers[n][1] = sent[1].headers[n][1]
                    /\ sent[2].headers[n][2] =
                         Rewritten(sent[1].headers[n][2], real_token.str, fresh_token.str)
       /\ (Done /\ Len(answers) = 2 /\ Succeeded(2)) => (client = RelayOf(2) /\ ~escaped)

\* 401, refresh, a new token, 200
C7_Witness ==
  /\ Done
  /\ FirstWas401
  /\ Len(refreshed) = 1
  /\ Len(sent) = 2
  /\ fresh_token.str = <<"t", "t">> /\ real_token.str = <<"q">>
  /\ DictGet(sent[1].headers, "Authorization") = <<"B", "q">>
  /\ DictGet(sent[2].headers, "Authorization") = <<"B", "t", "t">>
  /\ answers[2].kind = "response" /\ answers[2].status = 200 /\ answers[2].complete
  /\ client[1].status = 200 /\ client[2].data = answers[2].body
  /\ answers[2].body # answers[1].body

(***************************************************************************)
(* C8, as claimed: when a second urlopen is made its outcome is the final  *)
(* one: a response of any status is relayed with its own status and body,  *)
(* a transport error is answered 502.                                      *)
(***************************************************************************)
C8_AsClaimed ==
  (Done /\ Len(answers) = 2)
    => /\ (answers[2].kind = "response" /\ answers[2].complete)
            => /\ Len(client) = 2
               /\ client[1].status = answers[2].status
               /\ client[2].data = answers[2].body
       /\ answers[2].kind = "error" => client = send_error(502, "Bad Gateway")

(***************************************************************************)
(* C8, amended: when a second urlopen is made, a 2xx response of it is     *)
(* relayed with its own status, headers and body; an HTTP error status of  *)
(* it (another 401 included) and a transport error are both answered with  *)
(* the first attempt's 401 response, never with the second response and    *)
(* never with 502 (and with nothing at all when the first response's body  *)
(* cannot be read).                                                        *)
(***************************************************************************)
C8_RetryOutcome ==
  (Done /\ Len(answers) = 2)
    => /\ Succeeded(2) => (client = RelayOf(2) /\ ~escaped)
       /\ (\/ answers[2].kind = "error"
           \/ answers[2].status < 200
           \/ answers[2].status > 299) => FellBackToFirst

\* a retry answered 500, and the client holding the first 401
C8_Witness ==
  /\ Done
  /\ Len(answers) = 2
  /\ answers[1].complete
  /\ answers[2].kind = "response" /\ answers[2].status = 500 /\ answers[2].complete
  /\ answers[2].body # answers[1].body
  /\ client[1].status = 401 /\ client[2].data = answers[1].body

(***************************************************************************)
(* C9, as claimed: when the token fetched after the refresh equals the     *)
(* first one, a second urlopen is still made.                              *)
(***************************************************************************)
C9_AsClaimed ==
  (Done /\ FirstWas401 /\ Count(trace, "credentials") = 2 /\ fresh_token = real_token)
    => Len(sent) = 2

(***************************************************************************)
(* C9, amended: when the token fetched after the refresh equals the first  *)
(* one, no second urlopen is made and the client is answered with the      *)
(* first attempt's 401 response.                                           *)
(***************************************************************************)
C9_NoRetryWhenUnchanged ==
  (Count(trace, "credentials") = 2 /\ fresh_token = real_token)
    => /\ Done
       /\ Len(sent) = 1
       /\ Count(trace, "urlopen") = 1
       /\ FellBackToFirst

C9_Witness ==
  /\ Done
  /\ Count(trace, "credentials") = 2
  /\ fresh_token = real_token
  /\ fresh_token.str = <<"t">>
  /\ Len(sent) = 1
  /\ Len(client) = 2 /\ client[1].status = 401

(***************************************************************************)
(* C10: once a run of the refresher has returned, the handler fetches the  *)
(* credentials again whatever the exit status, and the response the client *)
(* gets is decided by the two tokens and the upstream's answers alone.     *)
(***************************************************************************)
C10_ExitStatusIgnored ==
  (Len(refreshed) = 1 /\ ~refreshed[1].raises)
    => /\ pc \in {"refetch", "retry", "done"}
       /\ pc # "refetch"
            => /\ Count(trace, "credentials") = 2
               /\ trace[3] = "refresh" /\ trace[4] = "credentials"
       /\ pc = "retry" => (fresh_token.str # <<>> /\ fresh_token # real_token)
       /\ Done => /\ Len(answers) = 2 <=> (fresh_token.str # <<>> /\ fresh_token # real_token)
                  /\ IF Len(answers) = 2 /\ Succeeded(2) THEN client = RelayOf(2) /\ ~escaped
                     ELSE IF Len(answers) = 2 /\ answers[2].kind = "response"
                             /\ answers[2].status >= 200 /\ answers[2].status <= 299
                     THEN TRUE
                     ELSE FellBackToFirst

\* a refresher that exited 1, and the retry made and relayed all the same
C10_Witness ==
  /\ Done
  /\ Len(refreshed) = 1
  /\ ~refreshed[1].raises /\ refreshed[1].returncode = 1
  /\ Len(sent) = 2
  /\ Succeeded(2)
  /\ client[1].status = answers[2].status

(***************************************************************************)
(* C11: when the first urlopen ends in a transport error (no HTTP response *)
(* at all) the client is answered 502, the refresher is never run and no   *)
(* second urlopen is made.                                                 *)
(***************************************************************************)
C11_TransportError ==
  (Len(answers) >= 1 /\ answers[1].kind = "error")
    => /\ Done
       /\ client = send_error(502, "Bad Gateway")
       /\ ~escaped
       /\ refreshed = <<>>
       /\ Count(trace, "refresh") = 0
       /\ Len(sent) = 1
       /\ trace = <<"credentials", "urlopen">>

\* a connection that was refused, answered 502
C11_Witness ==
  /\ Done
  /\ answers = <<NoResponse>>
  /\ Len(client) = 2
  /\ client[1].origin = "send_error" /\ client[1].status = 502

(***************************************************************************)
(* C12: when the upstream answers 401 to the first call and to the retry   *)
(* (and the body of the first answer is read), the refresher has run once  *)
(* and not again, and the client receives one response, of status 401.     *)
(***************************************************************************)
C12_Persistent401 ==
  (/\ Len(answers) = 2
   /\ FirstWas401 /\ answers[1].complete
   /\ answers[2].kind = "response" /\ answers[2].status = 401)
    => /\ Done
       /\ Len(refreshed) = 1
       /\ Count(trace, "refresh") = 1
       /\ trace = <<"credentials", "urlopen", "refresh", "credentials", "urlopen">>
       /\ Len(client) = 2
       /\ client[1].kind = "head" /\ client[1].origin = "relay"
       /\ client[1].status = 401
       /\ client[2].kind = "body"
       /\ ~escaped

\* two 401 answers with different bodies, and the client holding a 401
C12_Witness ==
  /\ Done
  /\ Len(answers) = 2
  /\ FirstWas401 /\ answers[1].complete
  /\ answers[2].kind = "response" /\ answers[2].status = 401 /\ answers[2].complete
  /\ answers[2].body # answers[1].body
  /\ Len(refreshed) = 1
  /\ Len(client) = 2 /\ client[1].status = 401

(***************************************************************************)
(* C13, as claimed: while the handler of one request is blocked in a       *)
(* credential fetch, a refresh or an upstream call, the handling of        *)
(* another request that has arrived can start.                             *)
(***************************************************************************)
C13_AsClaimed ==
  (pc \in {"fetch", "forward", "refresh", "refetch", "retry"} /\ backlog # <<>>)
    => ENABLED Dispatch

\* one request waiting for its upstream answer, another arrived and waiting
C13_Witness ==
  /\ pc = "forward"
  /\ backlog # <<>>
  /\ served = <<>>

(***************************************************************************)
(* C14, as claimed: whatever the request, the credential source and the    *)
(* upstream do, when handle_request is over a response has been written to *)
(* the client and no exception has left the handler.                       *)
(***************************************************************************)
C14_AsClaimed ==
  Done => (client # <<>> /\ ~escaped)

\* an access token that is a number, a request that holds the placeholder,
\* and the handler left by the TypeError of str.replace with nothing written
C14_Witness ==
  /\ Done
  /\ real_token = Number
  /\ HoldsPlaceholder(request.headers)
  /\ escaped
  /\ client = <<>>

(***************************************************************************)
(* C15, as claimed: no header dict handed to Request(...), on the first    *)
(* attempt or the retry, holds a Content-Length or a Connection header of  *)
(* the inbound request, whatever the casing of its name - and neither does *)
(* the header dict the Request object keeps.                               *)
(***************************************************************************)
C15_AsClaimed ==
  \A i \in 1..Len(sent) :
    /\ \A n \in 1..Len(sent[i].headers) :
         Lower(sent[i].headers[n][1]) \notin {"content-length", "connection"}
    /\ \A n \in 1..Len(sent[i].req_headers) :
         Lower(sent[i].req_headers[n][1]) \notin {"content-length", "connection"}

\* a request with content-length and connection in lower case, retried, and
\* both headers in the dict of the retry
C15_Witness ==
  /\ Len(sent) = 2
  /\ MsgHas(request.headers, "Content-Length")
  /\ MsgHas(request.headers, "Connection")
  /\ DictHas(sent[2].headers, "content-length")
  /\ DictHas(sent[2].headers, "connection")
  /\ DictHas(sent[2].req_headers, "Content-length")

\* the names of a header sequence without regard to case
LowerNames(hdrs) == {Lower(hdrs[n][1]) : n \in 1..Len(hdrs)}

(***************************************************************************)
(* C16: no response relayed to the client - of the first attempt, of the   *)
(* retry, or of an HTTP error - has a Connection or a Transfer-Encoding    *)
(* header, whatever the casing of the name in the upstream response.       *)
(***************************************************************************)
C16_HopByHopDropped ==
  \A i \in 1..Len(client) :
    (client[i].kind = "head" /\ client[i].origin = "relay")
      => LowerNames(client[i].headers) \cap {"connection", "transfer-encoding"} = {}

\* a 401 relayed by the error handling after a retry that failed, where
\* the upstream had sent Connection and transfer-encoding
C16_Witness ==
  /\ Done
  /\ Len(answers) = 2
  /\ FirstWas401 /\ answers[1].complete
  /\ {"connection", "transfer-encoding"} \subseteq LowerNames(answers[1].headers)
  /\ answers[2].kind = "error"
  /\ Len(client) = 2
  /\ client[1].origin = "relay"
  /\ "set-cookie" \in LowerNames(client[1].headers)

(***************************************************************************)
(* C17, as claimed: every request object handed to urlopen, on the first   *)
(* attempt and on the retry, has exactly one Host header and its value is  *)
(* the upstream authority, whatever Host headers the inbound request had.  *)
(***************************************************************************)
C17_AsClaimed ==
  \A i \in 1..Len(sent) :
    /\ Cardinality({n \in 1..Len(sent[i].req_headers) :
                      Lower(sent[i].req_headers[n][1]) = "host"}) = 1
    /\ DictHas(sent[i].req_headers, "Host")
    /\ DictGet(sent[i].req_headers, "Host") = UPSTREAM_HOST

\* an inbound request with Host and then host, and a retry that goes out
\* with the client's Host value
C17_Witness ==
  /\ Len(sent) = 2
  /\ MsgGet(request.headers, "Host", <<>>) = <<"B">>
  /\ DictGet(sent[1].headers, "Host") = UPSTREAM_HOST
  /\ DictGet(sent[1].req_headers, "Host") = <<"B">>
  /\ DictGet(sent[2].req_headers, "Host") = <<"B">>

(***************************************************************************)
(* C18, as claimed: every header of the inbound request other than         *)
(* Content-Length, Connection and Host is in the first request handed to   *)
(* urlopen, under its name and with its own value after the placeholder    *)
(* substitution - also when several inbound headers have the same name.    *)
(***************************************************************************)
C18_AsClaimed ==
  Len(sent) >= 1 =>
    \A j \in 1..Len(request.headers) :
      Lower(request.headers[j][1]) \notin {"content-length", "connection", "host"}
        => \E n \in 1..Len(sent[1].headers) :
             /\ Lower(sent[1].headers[n][1]) = Lower(request.headers[j][1])
             /\ sent[1].headers[n][2] =
                  Rewritten(request.headers[j][2], DUMMY, real_token.str)

\* two inbound headers of one name with different values, and the first
\* request gone out without the value of the second
C18_Witness ==
  /\ Len(sent) >= 1
  /\ Len(request.headers) = 2
  /\ request.headers[1][1] = request.headers[2][1]
  /\ request.headers[1][2] = Bearer /\ request.headers[2][2] = <<"B">>
  /\ Len(sent[1].headers) = 2
  /\ \A n \in 1..Len(sent[1].headers) : sent[1].headers[n][2] # <<"B">>

(***************************************************************************)
(* C19, as claimed: every response relayed to the client - on success, on  *)
(* retry success and on an HTTP error - has every header of the upstream   *)
(* response other than Connection and Transfer-Encoding, with its value,   *)
(* as often as the upstream sent it and in that order.                     *)
(***************************************************************************)
C19_AsClaimed ==
  \A i \in 1..Len(client) :
    (client[i].kind = "head" /\ client[i].origin = "relay")
      => \E k \in 1..Len(answers) :
           /\ answers[k].kind = "response"
           /\ client[i] = RelayOf(k)[1]

\* a 403 with two Set-Cookie headers, relayed with one
C19_Witness ==
  /\ Done
  /\ Len(answers) = 1
  /\ answers[1].kind = "response" /\ answers[1].status = 403 /\ answers[1].complete
  /\ Cardinality({n \in 1..Len(answers[1].headers) :
                    answers[1].headers[n][1] = "Set-Cookie"}) = 2
  /\ Len(client) = 2
  /\ client[1].status = 403
  /\ Cardinality({n \in 1..Len(client[1].headers) :
                    client[1].headers[n][1] = "Set-Cookie"}) = 1

\* the body of the inbound request: the bytes its Content-Length announces
InboundBody ==
  LET v == MsgGet(request.headers, "Content-Length", <<"0">>)
      n == IF v = <<"1">> THEN 1 ELSE IF v = <<"2">> THEN 2 ELSE 0
  IN  SubSeq(request.entity, 1, n)

(***************************************************************************)
(* C20: every request handed to urlopen has the method of the inbound      *)
(* request (GET, POST, PUT or DELETE), the URL made of the fixed upstream  *)
(* base and the inbound path and query as they came, and the inbound body  *)
(* as data, the empty bytes when the inbound request has no body.          *)
(***************************************************************************)
C20_MethodUrlBody ==
  \A i \in 1..Len(sent) :
    /\ sent[i].method = request.method
    /\ sent[i].method \in {"GET", "POST", "PUT", "DELETE"}
    /\ sent[i].url = <<"https://api.anthropic.com", request.path>>
    /\ sent[i].data = InboundBody
    /\ ~MsgHas(request.headers, "Content-Length") => sent[i].data = <<>>

\* a PUT with a body, sent twice
C20_Witness ==
  /\ Len(sent) = 2
  /\ request.method = "PUT"
  /\ request.entity = <<"x">>
  /\ sent[1].method = "PUT" /\ sent[2].method = "PUT"
  /\ sent[2].data = <<"x">>
  /\ sent[2].url = <<"https://api.anthropic.com", "/v1/messages">>

(***************************************************************************)
(* C21, as claimed: the second request handed to urlopen has the method,   *)
(* the URL, the body and the header names of the first, and each of its    *)
(* header values is the first attempt's with nothing changed but the token *)
(* the substitution had put in: it is the inbound value with the second    *)
(* token, instead of the first, in place of the placeholder.               *)
(***************************************************************************)
C21_AsClaimed ==
  Len(sent) = 2 =>
    /\ sent[2].method = sent[1].method
    /\ sent[2].url = sent[1].url
    /\ sent[2].data = sent[1].data
    /\ Len(sent[2].headers) = Len(sent[1].headers)
    /\ \A n \in 1..Len(sent[1].headers) :
         LET k == sent[1].headers[n][1]
         IN  /\ sent[2].headers[n][1] = k
             /\ IF k = "Host" THEN sent[2].headers[n][2] = sent[1].headers[n][2]
                ELSE sent[2].headers[n][2] =
                       Rewritten(DictGet(InboundDict, k), DUMMY, fresh_token.str)

(***************************************************************************)
(* C21, amended: the second request has the method, the URL, the body and  *)
(* the header names of the first, and each of its header values is the     *)
(* first attempt's value with every occurrence of the first token replaced *)
(* by the second and the rest unchanged. That is the inbound value with    *)
(* the second token in place of the placeholder provided the first token   *)
(* occurs in the first attempt's value only where the substitution put it  *)
(* (putting the placeholder back for it gives the inbound value again).    *)
(***************************************************************************)
C21_RetryFrame ==
  Len(sent) = 2 =>
    LET d  == InboundDict
        t1 == real_token.str
        t2 == fresh_token.str
    IN  /\ sent[2].method = sent[1].method
        /\ sent[2].url = sent[1].url
        /\ sent[2].data = sent[1].data
        /\ Len(sent[2].headers) = Len(sent[1].headers)
        /\ \A n \in 1..Len(sent[1].headers) :
             LET k  == sent[1].headers[n][1]
                 w1 == sent[1].headers[n][2]
                 w2 == sent[2].headers[n][2]
             IN  /\ sent[2].headers[n][1] = k
                 /\ w2 = Rewritten(w1, t1, t2)
                 /\ Occurrences(w1, t1) = {} => w2 = w1
                 /\ (k # "Host" /\ Rewritten(w1, t1, DUMMY) = DictGet(d, k))
                      => w2 = Rewritten(DictGet(d, k), DUMMY, t2)

\* a DELETE retried with a longer token, the text before the token kept
C21_Witness ==
  /\ Len(sent) = 2
  /\ request.method = "DELETE"
  /\ real_token.str = <<"t">> /\ fresh_token.str = <<"t", "t">>
  /\ DictGet(InboundDict, "Authorization") = Bearer
  /\ DictGet(sent[1].headers, "Authorization") = <<"B", "t">>
  /\ DictGet(sent[2].headers, "Authorization") = <<"B", "t", "t">>
  /\ DictGet(sent[2].headers, "Host") = DictGet(sent[1].headers, "Host")

(***************************************************************************)
(* C22: no step of the handler changes the header set of the inbound       *)
(* request: the substitution of the first attempt and the update for the   *)
(* retry write to the dict made of it, and once either has run the inbound *)
(* headers still hold their values, the placeholder among them.            *)
(***************************************************************************)
C22_InputNotMutated ==
  [][/\ request' = request
     /\ pc' \in {"fix", "retry"} => HoldsPlaceholder(request.headers')]_vars

\* after the update for the retry: the dict holds the second token, the
\* inbound headers the placeholder
C22_Witness ==
  /\ Len(sent) = 2
  /\ fresh_token.str = <<"t", "t">>
  /\ HoldsPlaceholder(request.headers)
  /\ ~HoldsPlaceholder(headers)
  /\ AnyValueContains(headers, fresh_token.str)
  /\ ~AnyValueContains(request.headers, fresh_token.str)

(***************************************************************************)
(* C23: the tokens are local to the handling of one request. When a        *)
(* handler starts, no token and no header dict of an earlier request is    *)
(* held; every request handed to urlopen follows a credential fetch of its *)
(* own in the same handling, and carries the token that fetch returned     *)
(* wherever the inbound value held the placeholder.                        *)
(***************************************************************************)
C23_RequestLocal ==
  /\ pc \in {"listening", "idle", "fetch", "blocked"}
       => /\ real_token = None /\ fresh_token = None
          /\ headers = <<>> /\ sent = <<>> /\ trace = <<>>
  /\ Len(sent) <= Count(trace, "credentials")
  /\ \A i \in 1..Len(sent) :
       /\ i = 1 => (~real_token.none /\ real_token.isstr)
       /\ i = 2 => (~fresh_token.none /\ fresh_token.isstr)
       /\ \A n \in 1..Len(sent[i].headers) :
            LET k == sent[i].headers[n][1]
            IN  (k # "Host" /\ StrContains(DictGet(InboundDict, k), DUMMY))
                  => StrContains(sent[i].headers[n][2], TokenOf(i))

\* the second connection of the server, handled with a token of its own:
\* the credential source gave the first handler one token and this handler
\* another, and the upstream call carries this one
C23_Witness ==
  /\ Len(served) = 1
  /\ served[1] = Str(<<"t", "t">>)
  /\ real_token = Str(<<"t">>)
  /\ Len(sent) = 1
  /\ DictGet(sent[1].headers, "Authorization") = <<"B", "t">>

\* the external calls of the longest handling, in order
FullTrace == <<"credentials", "urlopen", "refresh", "credentials", "urlopen">>

(***************************************************************************)
(* C24: the steps of one handling come in one order. The first credential  *)
(* fetch is over before the substitution, the substitution before the      *)
(* first urlopen; the refresher runs only after a first urlopen that       *)
(* raised 401 and before the second fetch; the second urlopen comes after  *)
(* the second fetch; and nothing is written to the client while the        *)
(* decision to retry is open.                                              *)
(***************************************************************************)
C24_StrictOrder ==
  /\ Len(trace) <= Len(FullTrace)
  /\ \A i \in 1..Len(trace) : trace[i] = FullTrace[i]
  /\ Len(answers) = Len(sent)
  /\ pc \in {"idle", "fetch"} => (trace = <<>> /\ headers = <<>>)
  /\ pc = "substitute" => (trace = <<"credentials">> /\ headers = <<>> /\ sent = <<>>)
  /\ headers # <<>> => (trace # <<>> /\ ~real_token.none)
  /\ sent # <<>> => (headers # <<>> /\ DictHas(sent[1].headers, "Host"))
  /\ refreshed # <<>> => (Len(answers) >= 1 /\ FirstWas401)
  /\ Count(trace, "credentials") = 2 => (Len(refreshed) = 1 /\ ~refreshed[1].raises)
  /\ Len(sent) = 2 => (Count(trace, "credentials") = 2 /\ ~fresh_token.none)
  /\ pc \in {"substitute", "fix", "forward", "refresh", "refetch", "retry"}
       => (client = <<>> /\ ~escaped)

\* the longest handling, all five external calls made
C24_Witness ==
  /\ Done
  /\ trace = FullTrace
  /\ Len(client) = 2
  /\ client[1].status = 200

(***************************************************************************)
(* C25: get_real_oauth_token returns the accessToken exactly when the      *)
(* process exits 0 with a stdout that parses as a record holding           *)
(* claudeAiOauth.accessToken; a non-zero exit, an empty or malformed       *)
(* stdout, a record without the member and an exception of the run         *)
(* (timeout included) all give None; and no exception leaves the adapter.  *)
(***************************************************************************)
C25_Adapter ==
  /\ \A run \in CredentialRuns :
       LET hasToken == /\ ~run.raises
                       /\ run.returncode = 0
                       /\ run.stdout \in {"record", "recordNumber"}
       IN  /\ hasToken => /\ ~get_real_oauth_token(run).none
                          /\ run.stdout = "record"
                               => /\ get_real_oauth_token(run).isstr
                                  /\ get_real_oauth_token(run).str = run.accessToken
           /\ ~hasToken => get_real_oauth_token(run) = None
  /\ \A t \in {real_token, fresh_token} :
       \E run \in CredentialRuns :
         /\ t = get_real_oauth_token(run)
         /\ ~t.none => (~run.raises /\ run.returncode = 0)
  /\ pc = "substitute" => (~escaped /\ ~real_token.none)
  /\ (Done /\ real_token.none /\ trace # <<>>) => (~escaped /\ client # <<>>)

\* a fetch that returned a token, and the handler going on with it
C25_Witness ==
  /\ pc = "substitute"
  /\ trace = <<"credentials">>
  /\ real_token = Str(<<"t", "t">>)
  /\ ~escaped

(***************************************************************************)
(* C26, as claimed: with every run of the credential script and of the     *)
(* refresher and every urlopen returning or timing out, each handling      *)
(* comes to its end - wherever the handler stands short of the end it has  *)
(* a step to take -, it makes at most two attempts, and at the end no      *)
(* further fetch, refresh or urlopen follows.                              *)
(***************************************************************************)
C26_AsClaimed ==
  /\ Done \/ ENABLED Next
  /\ Len(sent) <= 2
  /\ Done => ~ENABLED Next

\* a client that announced two bytes and sent one: rfile.read(2) never
\* returns, with no external call made yet
C26_Witness ==
  /\ pc = "blocked"
  /\ ContentLength(request.headers).n > Len(request.entity)
  /\ trace = <<>>
  /\ client = <<>>
  /\ ~ENABLED Next

(***************************************************************************)
(* C27: with the port in use when main starts, main ends by sys.exit(1)    *)
(* and no connection is ever accepted or served; a keyboard interrupt      *)
(* while serving leaves serve_forever, server.shutdown() does not wait     *)
(* (the loop has set its event on the way out), and main returns, after    *)
(* which nothing more is served.                                           *)
(***************************************************************************)
C27_StartAndStop ==
  /\ port_in_use => /\ pc \in {"start", "exit1"}
                    /\ backlog = <<>> /\ served = <<>>
                    /\ trace = <<>> /\ client = <<>>
  /\ (port_in_use /\ pc = "start") => ENABLED Bind
  /\ pc = "exit1" => (port_in_use /\ ~ENABLED MainNext)
  /\ pc = "interrupted" => (is_shut_down /\ ENABLED Shutdown)
  /\ pc = "returned" => (~port_in_use /\ ~ENABLED MainNext)

\* an interrupt after one connection was served and with another waiting,
\* and main returned
C27_Witness ==
  /\ pc = "returned"
  /\ Len(served) = 1
  /\ backlog # <<>>
  /\ is_shut_down

(***************************************************************************)
(* C28: the credential script is run once for each attempt and never a     *)
(* second time by the adapter: once before the first urlopen, and at most  *)
(* once more, only right after the run of the refresher; so at most two    *)
(* runs of the script and one of the refresher for a request.              *)
(***************************************************************************)
C28_FetchesPerRequest ==
  /\ Count(trace, "credentials") <= 2
  /\ Count(trace, "refresh") <= 1
  /\ Len(sent) <= Count(trace, "credentials")
  /\ \A i \in 1..Len(trace) :
       /\ trace[i] = "credentials"
            => (i = 1 \/ (i = 4 /\ trace[3] = "refresh" /\ Len(refreshed) = 1))
       /\ trace[i] = "urlopen"
            => (i > 1 /\ trace[i - 1] = "credentials")
       /\ trace[i] = "refresh"
            => Cardinality({j \in 1..(i - 1) : trace[j] = "credentials"}) = 1
  /\ pc \in {"substitute", "fix", "forward", "refresh"} => Count(trace, "credentials") = 1

\* a second fetch that gave nothing new, and no second attempt after it
C28_Witness ==
  /\ Done
  /\ trace = <<"credentials", "urlopen", "refresh", "credentials">>
  /\ fresh_token = None
  /\ Len(sent) = 1

(***************************************************************************)
(* C29, as claimed: the substitution loop reports a replacement exactly    *)
(* when some header value of the inbound request contains a placeholder;   *)
(* so with a token fetched and a placeholder in some inbound header the    *)
(* request is not answered with the no-placeholder 500 and the first       *)
(* urlopen is made, once.                                                  *)
(***************************************************************************)
C29_AsClaimed ==
  /\ pc = "fix" => HoldsPlaceholder(request.headers)
  /\ (/\ pc \notin {"idle", "fetch", "blocked", "substitute"}
      /\ real_token.isstr /\ real_token.str # <<>>
      /\ HoldsPlaceholder(request.headers))
       => /\ client # send_error(500, "No dummy tokens found to replace")
          /\ pc \notin {"fix", "forward"}
               => (Len(sent) >= 1 /\ trace[2] = "urlopen" /\ Count(trace, "urlopen") <= 2)

\* two Authorization headers, the placeholder in the second: the dict has
\* the value of the first, and the request is answered 500
C29_Witness ==
  /\ Done
  /\ real_token = Str(<<"t">>)
  /\ request.headers = << <<"Authorization", <<"B">>>>, <<"Authorization", Bearer>> >>
  /\ client = send_error(500, "No dummy tokens found to replace")
  /\ sent = <<>>

\* the i-th urlopen ended in a transport failure: no response at all, or a
\* response whose body could not be read to the end
TransportFailure(i) ==
  \/ answers[i].kind = "error"
  \/ answers[i].kind = "response" /\ ~answers[i].complete

(***************************************************************************)
(* C30: what the client is sent tells what happened. A 500 of the proxy's  *)
(* own is sent only when the first credential fetch gave no token or when  *)
(* the substitution found no placeholder, with a message for each; a 502   *)
(* of the proxy's own only when a urlopen ended in a transport failure;    *)
(* and every other response is the relay of a response of the upstream.    *)
(***************************************************************************)
C30_ErrorTaxonomy ==
  /\ send_error(500, "No credentials found")
       # send_error(500, "No dummy tokens found to replace")
  /\ \A i \in 1..Len(client) :
       client[i].kind = "head" =>
         /\ client[i].origin \in {"send_error", "relay"}
         /\ client[i].origin = "send_error" => client[i].status \in {500, 502}
         /\ (client[i].origin = "send_error" /\ client[i].status = 500)
              => \/ /\ client = send_error(500, "No credentials found")
                    /\ real_token.none \/ (real_token.isstr /\ real_token.str = <<>>)
                    /\ trace = <<"credentials">>
                 \/ /\ client = send_error(500, "No dummy tokens found to replace")
                    /\ ~real_token.none
                    /\ ~HoldsPlaceholder(InboundDict)
                    /\ sent = <<>>
         /\ (client[i].origin = "send_error" /\ client[i].status = 502)
              => \E k \in 1..Len(answers) : TransportFailure(k)
         /\ client[i].origin = "relay"
              => \E k \in 1..Len(answers) :
                   /\ answers[k].kind = "response"
                   /\ client[i].status = answers[k].status

\* a 500 that is the upstream's, relayed as such
C30_Witness ==
  /\ Done
  /\ Len(answers) = 1
  /\ answers[1].kind = "response" /\ answers[1].status = 500
  /\ Len(client) = 2
  /\ client[1].origin = "relay" /\ client[1].status = 500

\* the status lines written to the client connection so far
Heads == {i \in 1..Len(client) : client[i].kind = "head"}

(***************************************************************************)
(* C31: for one request at most one response (one status line and header   *)
(* block) is written to the client connection, on every path, a relayed    *)
(* body of the first attempt or of the retry that fails partway included.  *)
(***************************************************************************)
C31_AsClaimed == Cardinality(Heads) <= 1

\* the first attempt's 200 head is written, reading its body fails, and the
\* head of a 502 follows it on the same connection
C31_Witness ==
  /\ Done
  /\ Len(answers) = 1
  /\ answers[1].kind = "response" /\ answers[1].status = 200 /\ ~answers[1].complete
  /\ Cardinality(Heads) = 2
  /\ client[1].origin = "relay" /\ client[1].status = 200
  /\ client[2].origin = "send_error" /\ client[2].status = 502

\* the same after the retry: its 200 head, then the head of the first 401
C31_WitnessRetry ==
  /\ Done
  /\ Len(answers) = 2
  /\ ~answers[2].complete /\ answers[2].status = 200
  /\ e.complete
  /\ Cardinality(Heads) = 2
  /\ client[1].status = 200 /\ client[2].status = 401

\* the adapter gave nothing usable: None, or an empty string
Unavailable(tok) == tok.none \/ (tok.isstr /\ tok.str = <<>>)

\* the names of a header block that are not connection management
EndToEnd(hdrs) == LowerNames(hdrs) \ {"connection", "transfer-encoding"}

(***************************************************************************)
(* C32: after a first 401 and the refresh, when the second credential      *)
(* fetch gives no token, urlopen is not called again and the client        *)
(* receives the first attempt's 401 (status, headers without Connection    *)
(* and Transfer-Encoding, body as far as e.read() returns it) and no       *)
(* response of the proxy's own.                                            *)
(***************************************************************************)
C32_SecondFetchUnavailable ==
  (Count(trace, "credentials") = 2 /\ Unavailable(fresh_token))
    => /\ Done
       /\ FirstWas401
       /\ Len(sent) = 1
       /\ Count(trace, "urlopen") = 1
       /\ Len(refreshed) = 1
       /\ FellBackToFirst
       /\ \A i \in 1..Len(client) : client[i].origin # "send_error"
       /\ answers[1].complete
            => /\ Len(client) = 2
               /\ client[1].kind = "head" /\ client[1].status = 401
               /\ LowerNames(client[1].headers) = EndToEnd(answers[1].headers)
               /\ client[2].kind = "body" /\ client[2].data = answers[1].body

\* the script fails after the refresh, and the 401 with its Set-Cookie is
\* what the client holds
C32_Witness ==
  /\ Done
  /\ Count(trace, "credentials") = 2
  /\ fresh_token.none
  /\ ~real_token.none
  /\ answers[1].complete /\ answers[1].body = "body-2"
  /\ Len(sent) = 1
  /\ Len(client) = 2
  /\ client[1].status = 401 /\ client[1].origin = "relay"
  /\ "set-cookie" \in LowerNames(client[1].headers)
  /\ client[2].data = "body-2"

(***************************************************************************)
(* C33: when the call of the refresher itself raises (its 30 s timeout,    *)
(* an executable that cannot be started), the credentials are not fetched  *)
(* again, urlopen is not called again, and the client receives the first   *)
(* attempt's 401 as far as e.read() returns it.                            *)
(***************************************************************************)
C33_RefresherFails ==
  (Len(refreshed) >= 1 /\ refreshed[1].raises)
    => /\ Done
       /\ FirstWas401
       /\ Len(refreshed) = 1
       /\ trace = <<"credentials", "urlopen", "refresh">>
       /\ Len(sent) = 1
       /\ Len(answers) = 1
       /\ FellBackToFirst
       /\ \A i \in 1..Len(client) : client[i].origin # "send_error"
       /\ answers[1].complete
            => /\ Len(client) = 2
               /\ client[1].kind = "head" /\ client[1].status = 401
               /\ LowerNames(client[1].headers) = EndToEnd(answers[1].headers)
               /\ client[2].kind = "body" /\ client[2].data = answers[1].body

\* the refresher could not be run, and the client holds the 401
C33_Witness ==
  /\ Done
  /\ Len(refreshed) = 1 /\ refreshed[1].raises
  /\ Count(trace, "credentials") = 1
  /\ Len(sent) = 1
  /\ answers[1].complete /\ answers[1].body = "body-1"
  /\ Len(client) = 2
  /\ client[1].status = 401 /\ client[1].origin = "relay"
  /\ client[2].data = "body-1"

(***************************************************************************)
(* The two runpod.py scripts (platforms/ and Claude/containers/runpod/).   *)
(* Both find a .runpod_config.json, load and validate it, and then run     *)
(* ssh, rsync or sshfs against the host it names. Strings are sequences of *)
(* characters; a local path is a record of its components.                 *)
(***************************************************************************)
\* the longest config value, and the longest path given on the command line
MaxFieldLen == 2

MaxPathLen == 2

Alnum == {"h", "u", "w", "r", "0", "2", "3", "5", "6"}

\* the character classes of the three regular expressions
HostClass == Alnum \cup {".", "-"}

UserClass == Alnum \cup {"_", ".", "-"}

DirClass == Alnum \cup {"_", ".", "~", "/", "-"}

\* re.match(r"^[class]+$", value): $ matches at the end of the string and
\* also just before a newline that ends it
re_match(class, value) ==
  LET n == Len(value)
      matched == IF n > 0 /\ value[n] = "\n" THEN SubSeq(value, 1, n - 1) ELSE value
  IN  matched # <<>> /\ \A i \in 1..Len(matched) : matched[i] \in class

\* shlex.quote (no value here holds a single quote)
shlex_quote(v) ==
  IF v = <<>> THEN <<"'", "'">>
  ELSE IF \A i \in 1..Len(v) :
            v[i] \in Alnum \cup {"_", "@", "%", "+", "=", ":", ",", ".", "/", "-"}
  THEN v
  ELSE <<"'">> \o v \o <<"'">>

Digit == ("0" :> 0) @@ ("2" :> 2) @@ ("3" :> 3) @@ ("5" :> 5) @@ ("6" :> 6)

RECURSIVE DigitsValue(_)
DigitsValue(ds) ==
  IF ds = <<>> THEN 0
  ELSE 10 * DigitsValue(SubSeq(ds, 1, Len(ds) - 1)) + Digit[ds[Len(ds)]]

\* str.strip() as int() applies it
RECURSIVE Strip(_)
Strip(v) ==
  IF v = <<>> THEN v
  ELSE IF Head(v) \in {" ", "\n"} THEN Strip(Tail(v))
  ELSE IF v[Len(v)] \in {" ", "\n"} THEN Strip(SubSeq(v, 1, Len(v) - 1))
  ELSE v

\* int(config["port"]) and the range check; a JSON number passes int()
PortOk(port) ==
  IF ~port.isstr THEN TRUE
  ELSE LET t == Strip(port.str)
       IN  /\ t # <<>>
           /\ \A i \in 1..Len(t) : t[i] \in DOMAIN Digit
           /\ DigitsValue(t) >= 1 /\ DigitsValue(t) <= 65535

\* What a stretch of the script has done: the processes it started, and
\* the status it exited with (-1: it goes on)
Continue == [exit |-> -1, started |-> <<>>]

Exit(n) == [exit |-> n, started |-> <<>>]

Proc(prog, local) == [prog |-> prog, local |-> local]

Run(prog) == [exit |-> -1, started |-> <<Proc(prog, NoPath)>>]

Then(a, b) ==
  IF a.exit # -1 THEN a ELSE [exit |-> b.exit, started |-> a.started \o b.started]

\* validate_ssh_key_path: the container key, the agent, or a key file in
\* ~/.ssh or /etc/ssh; platforms/runpod.py knows the key file only
validate_ssh_key_path(c, ssh_key, env) ==
  LET keyfile == IF env.allowed /\ env.is_file THEN Continue ELSE Exit(1)
  IN  IF ~ssh_key.isstr THEN Exit(1)
      ELSE IF c = "platforms" THEN keyfile
      ELSE IF env.container THEN Continue
      ELSE IF env.agent = "none" THEN keyfile
      ELSE Then(Run("ssh-keygen"),
                Then(Run("ssh-add"), IF env.agent = "loaded" THEN Continue ELSE keyfile))

\* which key the later calls of validate_ssh_key_path return
KeyStep == validate_ssh_key_path(cli, config_file.ssh_key, key_env)

validate_config_values(c, f, env) ==
  IF ~f.host.isstr \/ ~re_match(HostClass, f.host.str) THEN Exit(1)
  ELSE IF ~PortOk(f.port) THEN Exit(1)
  ELSE IF ~f.user.isstr \/ ~re_match(UserClass, f.user.str) THEN Exit(1)
  ELSE Then(validate_ssh_key_path(c, f.ssh_key, env),
            IF ~f.remote_dir.isstr \/ ~re_match(DirClass, f.remote_dir.str)
            THEN Exit(1) ELSE Continue)

\* `not config.get(field)`
Missing(v) == v.none \/ (v.isstr /\ v.str = <<>>)

\* load_config: regular file, JSON, required fields, validation, quoting
\* (shlex.quote of a port that is a JSON number raises TypeError)
load_config(c, f, env) ==
  IF f.kind # "dict" THEN Exit(1)
  ELSE IF \E v \in {f.user, f.host, f.port, f.ssh_key, f.remote_dir} : Missing(v) THEN Exit(1)
  ELSE Then(validate_config_values(c, f, env),
            IF ~f.port.isstr THEN Exit(1) ELSE Continue)

Quoted(f) ==
  [user |-> shlex_quote(f.user.str), host |-> shlex_quote(f.host.str),
   port |-> shlex_quote(f.port.str), remote_dir |-> shlex_quote(f.remote_dir.str)]

\* The file system around the script: the current directory is /w, and
\* /w/link is a symbolic link to /etc
cwd == <<"w">>

Rel(parts) == [abs |-> FALSE, parts |-> parts]

Abs(parts) == [abs |-> TRUE, parts |-> parts]

\* Path.resolve(): the components are walked from the root, .. goes up,
\* and a symbolic link is replaced by its target
RECURSIVE Walk(_, _)
Walk(stack, rest) ==
  IF rest = <<>> THEN stack
  ELSE LET c == Head(rest)
           into == Append(stack, c)
       IN  IF c = "." THEN Walk(stack, Tail(rest))
           ELSE IF c = ".."
           THEN Walk(IF stack = <<>> THEN <<>> ELSE SubSeq(stack, 1, Len(stack) - 1),
                     Tail(rest))
           ELSE Walk(IF into = <<"w", "link">> THEN <<"etc">> ELSE into, Tail(rest))

resolve(p) == Walk(IF p.abs THEN <<>> ELSE cwd, p.parts)

\* PurePath.relative_to(base) does not raise
relative_to(parts, base) ==
  Len(parts) >= Len(base) /\ SubSeq(parts, 1, Len(base)) = base

\* (mutant) a check of the path as written: relative, and without ..
validate_source_path_lexical(source_path) ==
  [ok |-> ~source_path.abs /\ \A i \in 1..Len(source_path.parts) : source_path.parts[i] # "..",
   path |-> cwd \o source_path.parts]

validate_source_path(source_path) ==
  [ok |-> relative_to(resolve(source_path), cwd), path |-> resolve(source_path)]

\* f"{shlex.quote(str(source_path))}/" as rsync reads it: a path with an
\* unsafe character goes out inside single quotes, which no shell removes,
\* and so names a relative path whose first component is the quote
LocalArgument(parts) ==
  IF \A i \in 1..Len(parts) : parts[i] # "my dir" THEN Abs(parts)
  ELSE Rel(<<"'">> \o SubSeq(parts, 1, Len(parts) - 1) \o <<parts[Len(parts)] \o "'">>)

SshOutcomes == {"ok", "fail", "notfound"}

RsyncOutcomes == {"ok", "warn23", "fail", "notfound"}

\* subprocess.run: a program that is not there raises FileNotFoundError
\* (ends is what the script does about it), a non-zero status is a failure
Started(proc, out, ends) ==
  IF out = "notfound" THEN Exit(ends)
  ELSE [exit |-> -1, started |-> <<proc>>]

ensure_host_in_known_hosts(c, known) ==
  IF c = "containers" /\ ~known THEN Run("ssh-keyscan") ELSE Continue

ensure_remote_dir_exists(c, known, out) ==
  IF c = "platforms" THEN Continue
  ELSE Then(ensure_host_in_known_hosts(c, known),
            Then(KeyStep, Started(Proc("ssh", NoPath), out, 1)))

ssh_command(c, known, out) ==
  Then(ensure_host_in_known_hosts(c, known),
       Then(IF c = "containers" THEN KeyStep ELSE Continue,
            Then(Started(Proc("ssh", NoPath), out, 1),
                 IF out = "ok" THEN Continue ELSE Exit(1))))

Rsync(c, local, out) ==
  Then(Started(Proc("rsync", LocalArgument(local)), out, 1),
       IF out = "ok" \/ (c = "containers" /\ out = "warn23") THEN Continue ELSE Exit(1))

push(c, source_dir, known, out) ==
  Then(ensure_host_in_known_hosts(c, known),
       Then(IF validate_source_path(source_dir).ok THEN Continue ELSE Exit(1),
            Then(IF c = "containers" THEN KeyStep ELSE Continue,
                 Rsync(c, validate_source_path(source_dir).path, out))))

pull(c, dest_dir, out) ==
  Then(IF validate_source_path(dest_dir).ok THEN Continue ELSE Exit(1),
       Then(IF c = "containers" THEN KeyStep ELSE Continue,
            Rsync(c, validate_source_path(dest_dir).path, out)))

\* `git rev-parse --show-toplevel` where a directory is not given: the
\* root of the repository (here or above), or "." outside a repository;
\* platforms/runpod.py takes "."
Defaults(c) == IF c = "platforms" THEN {Rel(<<>>)} ELSE {Rel(<<>>), Abs(cwd), Abs(<<>>)}

GitFor(c) == IF c = "platforms" THEN Continue ELSE Run("git")

\* The inputs
FieldChars(good) == {good, ";", "\n"}

GoodConfigFile ==
  [kind |-> "dict", user |-> Str(<<"u">>), host |-> Str(<<"h">>), port |-> Str(<<"2", "2">>),
   ssh_key |-> Str(<<"k">>), remote_dir |-> Str(<<"/", "w">>)]

PortValues ==
  {None, Number} \cup
  {Str(v) : v \in {<<"0">>, <<"2", "2">>, <<"6", "5", "5", "3", "5">>, <<"6", "5", "5", "3", "6">>,
                   <<"x">>, <<"2", "\n">>, <<" ", "2">>, <<>>}}

ConfigFiles ==
  {NoConfigFile}
  \cup {[GoodConfigFile EXCEPT !.kind = k] : k \in {"irregular", "invalid", "dict"}}
  \cup {[GoodConfigFile EXCEPT !.host = v] :
          v \in {None, Number} \cup {Str(x) : x \in Strings(FieldChars("h"), MaxFieldLen)}}
  \cup {[GoodConfigFile EXCEPT !.user = v] :
          v \in {None, Number} \cup {Str(x) : x \in Strings(FieldChars("u"), MaxFieldLen)}}
  \cup {[GoodConfigFile EXCEPT !.remote_dir = v] :
          v \in {None, Number} \cup {Str(x) : x \in Strings(FieldChars("w") \cup {"~"}, MaxFieldLen)}}
  \cup {[GoodConfigFile EXCEPT !.port = v] : v \in PortValues}
  \cup {[GoodConfigFile EXCEPT !.ssh_key = v] : v \in {None, Number}}

GoodKeyEnv == [container |-> FALSE, agent |-> "none", allowed |-> TRUE, is_file |-> TRUE]

KeyEnvs ==
  {GoodKeyEnv,
   [GoodKeyEnv EXCEPT !.allowed = FALSE],
   [GoodKeyEnv EXCEPT !.is_file = FALSE],
   [GoodKeyEnv EXCEPT !.agent = "loaded", !.allowed = FALSE],
   [GoodKeyEnv EXCEPT !.agent = "empty"],
   [GoodKeyEnv EXCEPT !.container = TRUE, !.is_file = FALSE]}

Setups == (ConfigFiles \X {GoodKeyEnv}) \cup ({GoodConfigFile} \X KeyEnvs)

LocalPaths ==
  {Rel(p) : p \in Strings({"a", "..", "link", "my dir"}, MaxPathLen)}
  \cup {Abs(p) : p \in Strings({"w", "etc", "a", ".."}, MaxPathLen)}

Remote == Rel(<<"r">>)

Argvs ==
  {[command |-> c, rest |-> <<>>] :
     c \in {"", "config", "help", "push", "pull", "run", "status", "mount", "unmount",
            "python", "bogus"}}
  \cup {[command |-> "push", rest |-> <<l>>] : l \in LocalPaths}
  \cup {[command |-> "push", rest |-> <<Rel(<<>>), Remote>>]}
  \cup {[command |-> "pull", rest |-> <<Remote>>]}
  \cup {[command |-> "pull", rest |-> <<Remote, l>>] : l \in LocalPaths}
  \cup {[command |-> "run", rest |-> r] :
          r \in {<<Rel(<<"ls">>)>>, <<Rel(<<"--cwd">>), Remote>>,
                 <<Rel(<<"--cwd">>), Remote, Rel(<<"ls">>)>>}}
  \cup {[command |-> c, rest |-> <<Rel(<<"a">>)>>] : c \in {"mount", "unmount"}}

RunpodInit ==
  /\ pc = "script"
  /\ request = NoRequest
  /\ method = ""
  /\ body = <<>>
  /\ real_token = None
  /\ fresh_token = None
  /\ headers = <<>>
  /\ e = NoResponse
  /\ answers = <<>>
  /\ refreshed = <<>>
  /\ sent = <<>>
  /\ client = <<>>
  /\ escaped = FALSE
  /\ trace = <<>>
  /\ backlog = <<>>
  /\ served = <<>>
  /\ port_in_use = FALSE
  /\ is_shut_down = FALSE
  /\ cli \in {"platforms", "containers"}
  /\ argv \in Argvs
  /\ \E setup \in Setups : config_file = setup[1] /\ key_env = setup[2]
  /\ config = NoConfig
  /\ started = <<>>
  /\ exit_status = -1
  /\ hook_data = NoHookData

proxy == <<request, method, body, real_token, fresh_token, headers, e, answers, refreshed,
           sent, client, escaped, trace, server>>

\* A stretch of main() has run: its processes are started, and the script
\* has exited or goes on at `next`
Ran(r, next) ==
  /\ started' = started \o r.started
  /\ exit_status' = r.exit
  /\ pc' = IF r.exit = -1 THEN next ELSE "exited"

\* The end of main(): the script exits 0 unless it has exited before
Ended(r) == Ran(Then(r, Exit(0)), "exited")

\* find_config: the file in the current directory (containers only), or
\* the one at the root of the git repository; without one, exit 1
find_config ==
  /\ pc = "script"
  /\ \E in_cwd \in BOOLEAN :
       Ran(Then(IF cli = "containers" /\ in_cwd /\ config_file.kind # "none"
                THEN Continue ELSE Run("git"),
                IF config_file.kind = "none" THEN Exit(1) ELSE Continue),
           "load")
  /\ UNCHANGED <<proxy, cli, argv, config_file, key_env, config, hook_data>>

load ==
  /\ pc = "load"
  /\ Ran(load_config(cli, config_file, key_env), "main")
  /\ config' = IF load_config(cli, config_file, key_env).exit = -1
               THEN Quoted(config_file) ELSE config
  /\ UNCHANGED <<proxy, cli, argv, config_file, key_env, hook_data>>

\* main(): no command (an interactive session), run, python
run_ssh_command ==
  /\ pc = "main"
  /\ \/ argv.command = ""
     \/ argv.command = "run"
     \/ argv.command = "python" /\ cli = "containers"
  /\ \E known1 \in BOOLEAN, known2 \in BOOLEAN, mk \in SshOutcomes, out \in SshOutcomes :
       Ended(IF argv.command = "run"
             THEN IF \/ Len(argv.rest) < 1
                     \/ /\ cli = "containers"
                        /\ argv.rest[1] = Rel(<<"--cwd">>)
                        /\ Len(argv.rest) < 3
                  THEN Exit(1)
                  ELSE Then(ensure_remote_dir_exists(cli, known1, mk),
                            ssh_command(cli, known2, out))
             ELSE ssh_command(cli, known2, out))
  /\ UNCHANGED <<proxy, cli, argv, config_file, key_env, config, hook_data>>

push_directory ==
  /\ pc = "main"
  /\ argv.command = "push"
  /\ \E known1 \in BOOLEAN, known2 \in BOOLEAN, mk \in SshOutcomes, out \in RsyncOutcomes,
        root \in Defaults(cli) :
       Ended(Then(IF Len(argv.rest) >= 1 THEN Continue ELSE GitFor(cli),
                  Then(ensure_remote_dir_exists(cli, known1, mk),
                       push(cli, IF Len(argv.rest) >= 1 THEN argv.rest[1] ELSE root,
                            known2, out))))
  /\ UNCHANGED <<proxy, cli, argv, config_file, key_env, config, hook_data>>

pull_directory ==
  /\ pc = "main"
  /\ argv.command = "pull"
  /\ \E out \in RsyncOutcomes, root \in Defaults(cli) :
       Ended(Then(IF Len(argv.rest) >= 2 THEN Continue ELSE GitFor(cli),
                  pull(cli, IF Len(argv.rest) >= 2 THEN argv.rest[2] ELSE root, out)))
  /\ UNCHANGED <<proxy, cli, argv, config_file, key_env, config, hook_data>>

\* status (containers): a dry run of push and then of pull
show_status ==
  /\ pc = "main"
  /\ argv.command = "status" /\ cli = "containers"
  /\ \E known \in BOOLEAN, out1 \in RsyncOutcomes, out2 \in RsyncOutcomes,
        root \in Defaults(cli) :
       Ended(Then(Run("git"), Then(push(cli, root, known, out1), pull(cli, root, out2))))
  /\ UNCHANGED <<proxy, cli, argv, config_file, key_env, config, hook_data>>

\* mount (containers): sshfs on an empty mount point that is not mounted
mount_directory ==
  /\ pc = "main"
  /\ argv.command = "mount" /\ cli = "containers"
  /\ \E mounted \in BOOLEAN, empty \in BOOLEAN, known \in BOOLEAN, out \in SshOutcomes :
       Ended(Then(Run("mount"),
                  IF mounted THEN Exit(0)
                  ELSE IF ~empty THEN Exit(1)
                  ELSE Then(ensure_host_in_known_hosts(cli, known),
                            Then(KeyStep,
                                 Then(Started(Proc("sshfs", NoPath), out, 1),
                                      IF out = "ok" THEN Continue ELSE Exit(1))))))
  /\ UNCHANGED <<proxy, cli, argv, config_file, key_env, config, hook_data>>

unmount_directory ==
  /\ pc = "main"
  /\ argv.command = "unmount" /\ cli = "containers"
  /\ \E out \in SshOutcomes :
       Ended(Then(Started(Proc("fusermount", NoPath), out, 1),
                  IF out = "ok" THEN Continue ELSE Exit(1)))
  /\ UNCHANGED <<proxy, cli, argv, config_file, key_env, config, hook_data>>

\* config and help print and return; any other word is an unknown command
show_help ==
  /\ pc = "main"
  /\ \/ argv.command \in {"config", "help", "bogus"}
     \/ argv.command \in {"status", "mount", "unmount", "python"} /\ cli = "platforms"
  /\ Ended(IF argv.command \in {"config", "help"} THEN Continue ELSE Exit(1))
  /\ UNCHANGED <<proxy, cli, argv, config_file, key_env, config, hook_data>>

RunpodNext ==
  \/ find_config
  \/ load
  \/ run_ssh_command
  \/ push_directory
  \/ pull_directory
  \/ show_status
  \/ mount_directory
  \/ unmount_directory
  \/ show_help

RunpodSpec == RunpodInit /\ [][RunpodNext]_vars

\* the config file is what the scripts ask for: a JSON object with the
\* five fields, host, user and remote_dir of allowed characters only, and
\* a port that reads as an integer in 1..65535
Validated(f) ==
  /\ f.kind = "dict"
  /\ \A v \in {f.user, f.host, f.port, f.ssh_key, f.remote_dir} : ~Missing(v)
  /\ f.host.isstr /\ \A i \in 1..Len(f.host.str) : f.host.str[i] \in HostClass
  /\ f.user.isstr /\ \A i \in 1..Len(f.user.str) : f.user.str[i] \in UserClass
  /\ f.remote_dir.isstr
  /\ \A i \in 1..Len(f.remote_dir.str) : f.remote_dir.str[i] \in DirClass
  /\ PortOk(f.port)

Remotely == {i \in 1..Len(started) : started[i].prog \in {"ssh", "rsync", "sshfs"}}

(***************************************************************************)
(* C34, as claimed: in both scripts no ssh, rsync or sshfs is started      *)
(* unless the config file was found and is valid; a missing field, a host, *)
(* user or remote_dir with a character outside its set, or a port that is  *)
(* no integer in 1..65535 ends the script with status 1 and nothing        *)
(* started against the host.                                               *)
(***************************************************************************)
C34_AsClaimed ==
  /\ Remotely # {} => Validated(config_file)
  /\ (pc = "exited" /\ ~Validated(config_file)) => (exit_status = 1 /\ Remotely = {})

\* a host that ends in a newline, and ssh started for it
C34_Witness ==
  /\ config_file.host = Str(<<"h", "\n">>)
  /\ config.host = <<"'", "h", "\n", "'">>
  /\ argv.command = "run"
  /\ \E i \in 1..Len(started) : started[i].prog = "ssh"

\* but for a newline at the end of host, user or remote_dir, the claim holds
C34_ButForNewline ==
  (\A v \in {config_file.host, config_file.user, config_file.remote_dir} :
     v.isstr /\ v.str # <<>> => v.str[Len(v.str)] # "\n")
    => C34_AsClaimed

\* the rsync processes started, and the local directory the command line
\* names for push (the source) and for pull (the destination)
Rsyncs == {i \in 1..Len(started) : started[i].prog = "rsync"}

NamedLocal ==
  IF argv.command = "push" /\ Len(argv.rest) >= 1 THEN {argv.rest[1]}
  ELSE IF argv.command = "pull" /\ Len(argv.rest) >= 2 THEN {argv.rest[2]}
  ELSE {}

(***************************************************************************)
(* C35: in both scripts the local path of every rsync that is started      *)
(* (the source of push, the destination of pull) lies in the current       *)
(* directory or below it, symbolic links and .. followed; when the path    *)
(* named on the command line resolves to anything else, the script exits   *)
(* with status 1 and no rsync is started.                                  *)
(***************************************************************************)
C35_LocalPathInside ==
  /\ \A i \in Rsyncs : relative_to(resolve(started[i].local), cwd)
  /\ \A l \in NamedLocal :
       (pc = "exited" /\ ~relative_to(resolve(l), cwd))
         => (exit_status = 1 /\ Rsyncs = {})

\* a push of ./link, which points to /etc, refused after the config was
\* loaded and the remote directory made
C35_Witness ==
  /\ pc = "exited"
  /\ cli = "containers"
  /\ argv.command = "push"
  /\ argv.rest = <<Rel(<<"link">>)>>
  /\ config # NoConfig
  /\ \E i \in 1..Len(started) : started[i].prog = "ssh"
  /\ Rsyncs = {}
  /\ exit_status = 1

\* a pull into a directory with a space in its name: rsync is started
C35_WitnessStarted ==
  /\ argv.command = "pull"
  /\ Len(argv.rest) = 2 /\ argv.rest[2] = Rel(<<"my dir">>)
  /\ Rsyncs # {}

(***************************************************************************)
(* check-fallbacks.py, the hook run before a Write or an Edit. A content   *)
(* is the sequence of its lines (none for the empty string), a line a      *)
(* sequence of tokens, a file name the sequence of its parts.              *)
(***************************************************************************)
\* the most lines of a Python content, and the most tokens of a line
MaxLines == 4

MaxTokens == 4

\* the number of characters of a token
Width(tok) ==
  CASE tok \in {"graceful", "GRACEFUL", "fallback"} -> 8
    [] tok = "elevenchars" -> 11
    [] tok = "rm -f" -> 5
    [] tok \in {"true", "try:"} -> 4
    [] tok = "||" -> 2
    [] OTHER -> 1

RECURSIVE WidthOf(_)
WidthOf(toks) == IF toks = <<>> THEN 0 ELSE Width(Head(toks)) + WidthOf(Tail(toks))

\* re.compile(r'graceful.{0,10}fallback', re.IGNORECASE).search(line)
graceful_search(line) ==
  \E i \in 1..Len(line), j \in 1..Len(line) :
    /\ i < j
    /\ line[i] \in {"graceful", "GRACEFUL"}
    /\ line[j] = "fallback"
    /\ WidthOf(SubSeq(line, i + 1, j - 1)) <= 10

check_graceful_fallback(content) ==
  {i \in 1..Len(content) : graceful_search(content[i])}

\* line.split('#')[0]
CodePart(line) ==
  IF \E i \in 1..Len(line) : line[i] = "#"
  THEN SubSeq(line, 1, (CHOOSE i \in 1..Len(line) :
                          line[i] = "#" /\ \A k \in 1..(i - 1) : line[k] # "#") - 1)
  ELSE line

\* the tokens from i on are whitespace up to position j
Blank(part, i, j) == \A k \in i..(j - 1) : part[k] = " "

\* re.compile(r'\|\|\s*(true|:)(?:\s|;|$)').search(code_part)
suppress_search(part) ==
  \E i \in 1..Len(part), j \in 1..Len(part) :
    /\ i < j
    /\ part[i] = "||"
    /\ Blank(part, i + 1, j)
    /\ part[j] \in {"true", ":"}
    /\ j = Len(part) \/ part[j + 1] \in {" ", ";"}

check_bash_fallbacks(content) ==
  {i \in 1..Len(content) :
     /\ ~(\E k \in 1..Len(CodePart(content[i])) : CodePart(content[i])[k] = "rm -f")
     /\ suppress_search(CodePart(content[i]))}

\* ast.parse on the lines of this model: statements x and pass, at top
\* level or indented, try: and except: at top level, comments anywhere.
\* st is where the parser stands, hbody the body of the handler it is in,
\* issue whether a handler with the body [Pass] has been seen.
Simple == {<<"x">>, <<"pass">>}

Indented == {<<"  ", "x">>, <<"  ", "pass">>}

IsComment(line) == line = <<>> \/ Head(line) = "#" \/ (Len(line) >= 2 /\ line[1] = "  " /\ line[2] = "#")

RECURSIVE ast_parse(_, _, _, _)
ast_parse(lines, st, hbody, issue) ==
  LET seen == issue \/ (st = "handler" /\ hbody = <<"pass">>)
  IN  IF lines = <<>>
      THEN [ok |-> st \in {"top", "handler"}, issue |-> seen]
      ELSE LET l == Head(lines)
               rest == Tail(lines)
           IN  IF IsComment(l) THEN ast_parse(rest, st, hbody, issue)
               ELSE IF l \in Indented
               THEN IF st \in {"try", "body"} THEN ast_parse(rest, "body", <<>>, issue)
                    ELSE IF st \in {"except", "handler"}
                    THEN ast_parse(rest, "handler", Append(hbody, l[2]), issue)
                    ELSE [ok |-> FALSE, issue |-> FALSE]
               ELSE IF l = <<"except:">>
               THEN IF st \in {"body", "handler"} THEN ast_parse(rest, "except", <<>>, seen)
                    ELSE [ok |-> FALSE, issue |-> FALSE]
               ELSE IF l = <<"try:">>
               THEN IF st \in {"top", "handler"} THEN ast_parse(rest, "try", <<>>, seen)
                    ELSE [ok |-> FALSE, issue |-> FALSE]
               ELSE IF l \in Simple
               THEN IF st \in {"top", "handler"} THEN ast_parse(rest, "top", <<>>, seen)
                    ELSE [ok |-> FALSE, issue |-> FALSE]
               ELSE [ok |-> FALSE, issue |-> FALSE]

\* check_try_except_pass(ast.parse(content)) is not empty
check_try_except_pass(content) == ast_parse(content, "top", <<>>, FALSE).issue

SyntaxError(content) == ~ast_parse(content, "top", <<>>, FALSE).ok

endswith(filename, ext) == filename # <<>> /\ filename[Len(filename)] = ext

\* main(): the exit status for one document on stdin
HookExit(d) ==
  LET content == IF d.content # <<>> THEN d.content ELSE d.new_string
      is_python == endswith(d.file_path, ".py")
      is_bash == endswith(d.file_path, ".sh")
  IN  IF d.tool_name \notin {"Write", "Edit"} THEN 0
      ELSE IF content = <<>> THEN 0
      ELSE IF \E i \in 1..Len(d.file_path) : d.file_path[i] = "check-fallbacks" THEN 0
      ELSE IF ~is_python /\ ~is_bash THEN 0
      ELSE IF check_graceful_fallback(content) # {} THEN 2
      ELSE IF is_python /\ SyntaxError(content) THEN 0
      ELSE IF is_python /\ check_try_except_pass(content) THEN 2
      ELSE IF is_bash /\ check_bash_fallbacks(content) # {} THEN 2
      ELSE 0

\* The inputs
NonEmptyLines(S, n) == Strings(S, n) \ {<<>>}

PythonContents ==
  NonEmptyLines({<<"try:">>, <<"except:">>, <<"  ", "pass">>, <<"  ", "x">>, <<"x">>,
                 <<"#", "c">>}, MaxLines)

BashLines == NonEmptyLines({"||", " ", "true", ":", ";", ")", "#", "rm -f"}, MaxTokens)

GracefulLines ==
  NonEmptyLines({"graceful", "GRACEFUL", "fallback", " ", "elevenchars", "#"}, MaxTokens - 1)

BashContents ==
  {<<l>> : l \in BashLines \cup GracefulLines}
  \cup {<<a, b>> : a \in {<<"rm -f", " ", "||", "true">>, <<"x">>},
                   b \in {<<"||", " ", ":">>, <<"||", "true", ")">>, <<"x">>}}

Contents == PythonContents \cup BashContents

FileNames ==
  {<<"a", ".py">>, <<"a", ".sh">>, <<"a", ".py", ".txt">>, <<"check-fallbacks", ".py">>,
   <<"dir", "check-fallbacks", "a", ".sh">>, <<"unknown">>}

\* a content for each kind of finding, and one without
Samples ==
  { << <<"#", "graceful", " ", "fallback">> >>,
    << <<"try:">>, <<"  ", "x">>, <<"except:">>, <<"  ", "pass">> >>,
    << <<"||", " ", "true">> >>,
    << <<"x">> >> }

\* every content written to a .py and to a .sh file; the samples under
\* every tool, file name and field
HookInputs ==
  {[tool_name |-> "Write", content |-> c, new_string |-> <<>>, file_path |-> f] :
     c \in Contents, f \in {<<"a", ".py">>, <<"a", ".sh">>}}
  \cup {[tool_name |-> t, content |-> c, new_string |-> <<>>, file_path |-> f] :
          t \in {"Write", "Bash"}, c \in Samples, f \in FileNames}
  \cup {[tool_name |-> "Edit", content |-> <<>>, new_string |-> c, file_path |-> f] :
          c \in Samples, f \in FileNames}
  \cup {[tool_name |-> t, content |-> <<>>, new_string |-> <<>>, file_path |-> f] :
          t \in {"Write", "Edit"}, f \in FileNames}

HookInit ==
  /\ pc = "hook"
  /\ request = NoRequest
  /\ method = ""
  /\ body = <<>>
  /\ real_token = None
  /\ fresh_token = None
  /\ headers = <<>>
  /\ e = NoResponse
  /\ answers = <<>>
  /\ refreshed = <<>>
  /\ sent = <<>>
  /\ client = <<>>
  /\ escaped = FALSE
  /\ trace = <<>>
  /\ backlog = <<>>
  /\ served = <<>>
  /\ port_in_use = FALSE
  /\ is_shut_down = FALSE
  /\ cli = ""
  /\ argv = NoArgv
  /\ config_file = NoConfigFile
  /\ key_env = NoKeyEnv
  /\ config = NoConfig
  /\ started = <<>>
  /\ exit_status = -1
  /\ hook_data \in HookInputs

check_fallbacks ==
  /\ pc = "hook"
  /\ exit_status' = HookExit(hook_data)
  /\ pc' = "exited"
  /\ UNCHANGED <<proxy, cli, argv, config_file, key_env, config, started, hook_data>>

HookNext == check_fallbacks

HookSpec == HookInit /\ [][HookNext]_vars

\* The words of the claim: the content the hook looks at, and a finding
HookContent == IF hook_data.content # <<>> THEN hook_data.content ELSE hook_data.new_string

\* '|| true' or '|| :' outside a comment, on a line without 'rm -f'
SuppressionIn(line) ==
  /\ \E i \in 1..Len(CodePart(line)), j \in 1..Len(CodePart(line)) :
       /\ i < j
       /\ line[i] = "||"
       /\ Blank(line, i + 1, j)
       /\ line[j] \in {"true", ":"}
  /\ \A k \in 1..Len(line) : line[k] # "rm -f"

Finding ==
  \/ \E i \in 1..Len(HookContent) : graceful_search(HookContent[i])
  \/ /\ endswith(hook_data.file_path, ".py")
     /\ ~SyntaxError(HookContent)
     /\ check_try_except_pass(HookContent)
  \/ /\ endswith(hook_data.file_path, ".sh")
     /\ \E i \in 1..Len(HookContent) : SuppressionIn(HookContent[i])

Blocked ==
  /\ hook_data.tool_name \in {"Write", "Edit"}
  /\ HookContent # <<>>
  /\ \A i \in 1..Len(hook_data.file_path) : hook_data.file_path[i] # "check-fallbacks"
  /\ endswith(hook_data.file_path, ".py") \/ endswith(hook_data.file_path, ".sh")
  /\ Finding

(***************************************************************************)
(* C36, as claimed: the hook exits 2 exactly when the tool is Write or     *)
(* Edit, the content is not empty, the file name has no 'check-fallbacks'  *)
(* in it and ends in .py or .sh, and there is a finding: a line matching   *)
(* graceful...fallback; in a .py that parses, an except handler whose body *)
(* is pass alone; in a .sh, '|| true' or '|| :' outside a comment on a     *)
(* line without 'rm -f'. In every other case it exits 0.                   *)
(***************************************************************************)
C36_AsClaimed ==
  pc = "exited" =>
    /\ exit_status \in {0, 2}
    /\ exit_status = 2 <=> Blocked

\* a shell file with `|| true)`, as in x=$(cmd || true), let through
C36_Witness ==
  /\ pc = "exited"
  /\ hook_data.tool_name = "Write"
  /\ hook_data.file_path = <<"a", ".sh">>
  /\ hook_data.content = << <<"||", " ", "true", ")">> >>
  /\ exit_status = 0

\* where the word is followed by a blank, a semicolon, a comment or the end
\* of the line, and no comment holds 'rm -f', the claim holds
C36_ButForBoundary ==
  (\A n \in 1..Len(HookContent) :
     LET line == HookContent[n]
     IN  /\ \A j \in 1..(Len(line) - 1) :
              line[j] \in {"true", ":"} => line[j + 1] \in {" ", ";", "#"}
         /\ \A k \in 1..Len(line) : line[k] = "rm -f" => \A h \in 1..k : line[h] # "#")
    => C36_AsClaimed

====
